---- MODULE Spec2Model ----
(***************************************************************************)
(* A model of the NFL pick'em backend: the picks table and its submit      *)
(* handler, the weekly scoring engine (leaderboard and public picks view)  *)
(* and the kickoff reconciliation scripts.                                 *)
(*                                                                         *)
(* Conventions.                                                            *)
(*  - Instants are JavaScript Date values: milliseconds since              *)
(*    1970-01-01T00:00:00Z (a Thursday).  The modelled season is placed in *)
(*    the first weeks after the epoch so that every instant fits TLC's     *)
(*    32-bit integers.                                                     *)
(*  - A nullable number (SQL NULL / JS null) is a sequence: <<>> is null   *)
(*    and <<n>> is the value n.  A nullable team name is a string, "" for  *)
(*    null (the code only ever tests such a name for truthiness).          *)
(*  - A table is a set of row records; a query without ORDER BY returns    *)
(*    the rows in an order the caller does not control.                    *)
(***************************************************************************)
EXTENDS Integers, Sequences, FiniteSets, TLC

VARIABLES
    now,          \* the wall clock (new Date())
    games,        \* table games, as a function id -> row
    picks,        \* table picks, a set of rows
    gotwTable,    \* table game_of_the_week, a set of rows
    potwTable,    \* table player_of_the_week, a set of rows
    lastSubmit,   \* (user, week) -> the body of the last accepted pick submission
    response,     \* the last HTTP response, with the handler's locals
    oddsFeed,     \* what The Odds API returns: [ok, events]
    sdioFeed,     \* what SportsDataIO's schedule returns: [ok, events]
    runLog,       \* the last reconciler run: its script, options and writes
    evaluation,   \* the last call of a conversion helper: [fn, arg, result]
    users,        \* table users, as a function id -> row
    schema,       \* which status columns table users has
    resetTokens,  \* table password_resets, as a function token -> row
    inflight      \* requests between their reads and their writes

vars == <<now, games, picks, gotwTable, potwTable, lastSubmit, response,
          oddsFeed, sdioFeed, runLog, evaluation, users, schema, resetTokens,
          inflight>>

\* the account tables and the requests under way on them
accounts == <<users, schema, resetTokens, inflight>>

----------------------------------------------------------------------------
(* Nullable values and arithmetic helpers                                  *)

Null == <<>>
Some(n) == <<n>>
IsNull(x) == x = Null
Val(x) == x[1]

Abs(x) == IF x < 0 THEN -x ELSE x

\* Math.round(num / den) for den > 0: the nearest integer, halves towards
\* +Infinity (Math.round(59.5) = 60, Math.round(-59.5) = -59).
MathRound(num, den) == (2 * num + den) \div (2 * den)

\* Number.POSITIVE_INFINITY, as a number larger than every difference here.
Infinity == 1000000

NoTeam == ""

----------------------------------------------------------------------------
(* The calendar                                                            *)

MsPerSecond == 1000
MsPerMinute == 60 * MsPerSecond
MsPerHour == 60 * MsPerMinute
MsPerDay == 24 * MsPerHour

\* EXTRACT(DOW FROM t): 0 is Sunday; the epoch day is a Thursday.
DOW(t) == ((t \div MsPerDay) + 4) % 7

At(day, hour, minute) == day * MsPerDay + hour * MsPerHour + minute * MsPerMinute

----------------------------------------------------------------------------
(* The seeded season: two weeks, the second a double-points week, with a   *)
(* return fixture of the first week's Sunday game.                         *)

Weeks == {12, 13}
Users == {1, 2, 3}

Bills == "Buffalo Bills"
Dolphins == "Miami Dolphins"
Chiefs == "Kansas City Chiefs"
Raiders == "Las Vegas Raiders"


Game(w, h, a, ko) ==
    [week |-> w, home_team |-> h, away_team |-> a, kickoff |-> ko,
     home_score |-> Null, away_score |-> Null, favorite |-> NoTeam]

\* Week 12: a Thursday-night game (Friday 01:15 UTC) and a Sunday game;
\* week 13: the return fixture on the next Sunday.
SeededGames ==
    (1 :> Game(12, Chiefs, Raiders, Some(At(1, 1, 15)))) @@
    (2 :> Game(12, Bills, Dolphins, Some(At(3, 17, 0)))) @@
    (3 :> Game(13, Dolphins, Bills, Some(At(10, 18, 0))))

GamesOfWeek(w) == {id \in DOMAIN games : games[id].week = w}

----------------------------------------------------------------------------
(* The week lock                                                           *)

\* SELECT ko FROM games WHERE week = $1 AND EXTRACT(DOW FROM ko) = 0
\*  ORDER BY ko ASC LIMIT 1  -- Null when there is no such row
firstSundayKickoffUTC(w) ==
    LET sundays == {Val(games[id].kickoff) : id \in
                      {i \in GamesOfWeek(w) : /\ ~IsNull(games[i].kickoff)
                                              /\ DOW(Val(games[i].kickoff)) = 0}}
    IN IF sundays = {} THEN Null
       ELSE Some(CHOOSE t \in sundays : \A t2 \in sundays : t <= t2)

\* locked: sundayUTC ? now >= sundayUTC : false
IsLocked(w) ==
    LET sundayUTC == firstSundayKickoffUTC(w)
    IN IF IsNull(sundayUTC) THEN FALSE ELSE now >= Val(sundayUTC)

----------------------------------------------------------------------------
(* JSON request values                                                     *)

JUndefined == [kind |-> "undefined", n |-> 0]   \* the field is absent
JEmpty == [kind |-> "empty", n |-> 0]           \* the empty string ""
JNull == [kind |-> "null", n |-> 0]             \* JSON null
JNum(n) == [kind |-> "num", n |-> n]            \* a number, or a numeric string

\* Number(v) for the values above that reach it: Number(null) is 0.
Number(v) == IF v.kind = "num" THEN v.n ELSE 0

\* (v === "" || v === undefined) ? null : Number(v)
PredictionParam(v) ==
    IF v.kind = "empty" \/ v.kind = "undefined" THEN Null ELSE Some(Number(v))

----------------------------------------------------------------------------
(* POST /picks/submit                                                      *)

NoResponse == [handler |-> "none", status |-> 0]

PickRow(u, w, team, potw, gotw, created) ==
    [user_id |-> u, week |-> w, team |-> team, potw_prediction |-> potw,
     gotw_prediction |-> gotw, created_at |-> created]

\* INSERT INTO picks (...) VALUES (...) ON CONFLICT (user_id, week) DO UPDATE
\*   SET team, potw_prediction, gotw_prediction = EXCLUDED.*
\* created_at is not written by the statement: the column default (the time
\* of the insert) fills it, and an update leaves it alone.
UpsertPick(table, u, w, team, potw, gotw) ==
    LET conflict == {r \in table : r.user_id = u /\ r.week = w}
    IN IF conflict = {}
       THEN table \cup {PickRow(u, w, team, potw, gotw, now)}
       ELSE (table \ conflict) \cup
            {[r EXCEPT !.team = team, !.potw_prediction = potw,
                       !.gotw_prediction = gotw] : r \in conflict}

\* The handler's checks, in the code's order; 0 when the request passes them.
SubmitRejection(user_id, week, team) ==
    IF user_id = 0 THEN 401
    ELSE IF week < 1 THEN 400
    ELSE IF team = "" THEN 400
    ELSE 0

submitPickHandler(user_id, week, team, potw_prediction, gotw_prediction) ==
    LET rejected == SubmitRejection(user_id, week, team)
        potw == PredictionParam(potw_prediction)
        gotw == PredictionParam(gotw_prediction)
    IN IF rejected # 0
       THEN /\ response' = [handler |-> "submitPick", status |-> rejected]
            /\ UNCHANGED <<picks, lastSubmit>>
       ELSE /\ picks' = UpsertPick(picks, user_id, week, team, potw, gotw)
            /\ lastSubmit' =
                 {s \in lastSubmit : ~(s.user_id = user_id /\ s.week = week)}
                 \cup {[user_id |-> user_id, week |-> week, team |-> team,
                        potw_prediction |-> potw_prediction,
                        gotw_prediction |-> gotw_prediction]}
            /\ response' = [handler |-> "submitPick", status |-> 200]

\* The requests of the model.
SubmitUsers == {0, 1, 2}          \* 0: a request without req.user.user_id
SubmitWeeks == Weeks \cup {0}     \* 0: an invalid week
Wildcats == "Arizona Wildcats"    \* a team of no stored game
SubmitBodies ==
    { [team |-> Bills, potw_prediction |-> JNum(112), gotw_prediction |-> JNum(45)],
      [team |-> Dolphins, potw_prediction |-> JEmpty, gotw_prediction |-> JUndefined],
      [team |-> Dolphins, potw_prediction |-> JNum(112), gotw_prediction |-> JNull],
      [team |-> Wildcats, potw_prediction |-> JNum(112), gotw_prediction |-> JNum(45)],
      [team |-> "", potw_prediction |-> JNum(112), gotw_prediction |-> JNum(45)] }

\* res.json(...): the response leaves, the next request can be served.
\* Requests are served one at a time: `response` holds the answer under way.
ResponseSent ==
    /\ response # NoResponse
    /\ response' = NoResponse
    /\ UNCHANGED <<now, games, picks, gotwTable, potwTable, lastSubmit,
                   oddsFeed, sdioFeed, runLog, evaluation, accounts>>

SubmitPick ==
    \E u \in SubmitUsers, w \in SubmitWeeks, b \in SubmitBodies :
        /\ response = NoResponse
        /\ submitPickHandler(u, w, b.team, b.potw_prediction, b.gotw_prediction)
        /\ UNCHANGED <<now, games, gotwTable, potwTable, oddsFeed, sdioFeed, runLog, evaluation, accounts>>

\* Time passes: the clock moves to a later instant of the model.
ClockInstants == {At(2, 12, 0), At(3, 17, 0)}

Tick ==
    /\ \E t \in ClockInstants : t > now /\ now' = t
    /\ UNCHANGED <<games, picks, gotwTable, potwTable, lastSubmit, response,
                   oddsFeed, sdioFeed, runLog, evaluation, accounts>>


----------------------------------------------------------------------------
(* Sequences: Array.prototype.sort is stable                               *)

\* s sorted by a comparator, elements that compare equal keeping their
\* order in s; less[j, i] tells whether the comparator puts s[j] before s[i].
StableSort(s, less) ==
    LET n == Len(s)
        before(j, i) == less[j, i] \/ (~less[i, j] /\ j < i)
        pos(i) == Cardinality({j \in 1..n : j # i /\ before(j, i)}) + 1
    IN [k \in 1..n |-> s[CHOOSE i \in 1..n : pos(i) = k]]

\* The orders in which a query without ORDER BY may return the rows of S.
Orderings(S) ==
    {f \in [1..Cardinality(S) -> S] : \A i, j \in 1..Cardinality(S) : f[i] = f[j] => i = j}

RECURSIVE SumSeq(_)
SumSeq(s) == IF s = <<>> THEN 0 ELSE Head(s) + SumSeq(Tail(s))

----------------------------------------------------------------------------
(* users: the columns the scoring reads                                    *)

\* users.first_name; two accounts share a first name.
FirstName(u) == IF u = 1 THEN "Alice" ELSE "Bob"

\* a.localeCompare(b) < 0 for the names of the model
NameLess(a, b) == a = "Alice" /\ b = "Bob"

----------------------------------------------------------------------------
(* Leaderboard helpers (routes/leaderboard.js)                             *)

\* DOUBLE_WEEKS: String(process.env.DOUBLE_WEEKS || "13,17") parsed
DOUBLE_WEEKS == {13, 17}

isDoubleWeek(doubleWeeks, w) == w \in doubleWeeks

Factor(doubleWeeks, w) == IF isDoubleWeek(doubleWeeks, w) THEN 2 ELSE 1

\* games.find(g => g.home_team === home && g.away_team === away) among the
\* week's games; the empty set when there is none.
MatchupOfWeek(w, home, away) ==
    {id \in GamesOfWeek(w) : games[id].home_team = home /\ games[id].away_team = away}

ScoresKnown(g) == ~IsNull(g.home_score) /\ ~IsNull(g.away_score)

\* getGotwActualTotals(...).get(w)?.actual_total ?? null
GotwActualTotal(w) ==
    LET rows == {r \in gotwTable : r.week = w}
    IN IF rows = {} THEN Null
       ELSE LET r == CHOOSE x \in rows : TRUE
                match == MatchupOfWeek(w, r.home_team, r.away_team)
            IN IF ~IsNull(r.game_total_points) THEN r.game_total_points
               ELSE IF match # {} /\ ScoresKnown(games[CHOOSE id \in match : TRUE])
               THEN LET g == games[CHOOSE id \in match : TRUE]
                    IN Some(Val(g.home_score) + Val(g.away_score))
               ELSE Null

\* getPotwYards().get(w): null (here also for "no row") until entered
PotwYards(w) ==
    LET rows == {r \in potwTable : r.week = w}
    IN IF rows = {} THEN Null ELSE (CHOOSE x \in rows : TRUE).player_total_yards

\* weekGames.find(gm => gm.home_team === team || gm.away_team === team)
gameForTeam(w, team) ==
    {id \in GamesOfWeek(w) : games[id].home_team = team \/ games[id].away_team = team}

\* a variant that credits the home team with a tied game
Winner_TieToHome(g) ==
    IF ~ScoresKnown(g) THEN NoTeam
    ELSE IF Val(g.home_score) >= Val(g.away_score) THEN g.home_team
    ELSE g.away_team

\* winnerAndFavorite(g, team).winner for a game row g: "" for no winner
Winner(g) ==
    IF ~ScoresKnown(g) THEN NoTeam
    ELSE IF Val(g.home_score) > Val(g.away_score) THEN g.home_team
    ELSE IF Val(g.away_score) > Val(g.home_score) THEN g.away_team
    ELSE NoTeam

\* { winner, favorite } of the picked team's game; both "" without a game
winnerAndFavorite(w, team) ==
    LET found == gameForTeam(w, team)
    IN IF found = {} THEN [winner |-> NoTeam, favorite |-> NoTeam]
       ELSE LET g == games[CHOOSE id \in found : TRUE]
            IN [winner |-> Winner(g), favorite |-> g.favorite]

\* The points of one pick before the factor: +1 favorite, +2 otherwise.
BasePickPoints(w, team) ==
    LET wf == winnerAndFavorite(w, team)
    IN IF wf.winner # NoTeam /\ team = wf.winner
       THEN (IF wf.favorite # NoTeam /\ wf.favorite = team THEN 1 ELSE 2)
       ELSE 0


----------------------------------------------------------------------------
(* computeWeekTable: one week's scoring                                    *)

\* |prediction - actual| of a pick that carries a GOTW prediction
GotwDiff(p, gotwActual) == Abs(Val(p.gotw_prediction) - Val(gotwActual))

\* tie-breaker 1: the POTW difference; Infinity when the official value or
\* the prediction is missing
PotwDiff(p, potwOfficial) ==
    IF ~IsNull(potwOfficial) /\ ~IsNull(p.potw_prediction)
    THEN Abs(Val(p.potw_prediction) - Val(potwOfficial))
    ELSE Infinity

Contender(p, gotwActual, potwOfficial) ==
    [user_id |-> p.user_id, diff |-> GotwDiff(p, gotwActual),
     potwDiff |-> PotwDiff(p, potwOfficial), created_at |-> p.created_at]

\* the comparator of contenders.sort: diff, potwDiff, created_at, user_id
ContenderLess(a, b) ==
    IF a.diff # b.diff THEN a.diff < b.diff
    ELSE IF a.potwDiff # b.potwDiff THEN a.potwDiff < b.potwDiff
    ELSE IF a.created_at # b.created_at THEN a.created_at < b.created_at
    ELSE a.user_id < b.user_id

HasGotwPrediction(p) == ~IsNull(p.gotw_prediction)

\* contenders, sorted; empty while the actual total is unknown
Contenders(rows, gotwActual, potwOfficial) ==
    IF IsNull(gotwActual) THEN <<>>
    ELSE LET with == SelectSeq(rows, HasGotwPrediction)
             list == [i \in 1..Len(with) |-> Contender(with[i], gotwActual, potwOfficial)]
         IN StableSort(list, [j, i \in 1..Len(list) |-> ContenderLess(list[j], list[i])])

\* [3, 2, 1][i]
PodiumAwards == <<3, 2, 1>>

\* contenders.slice(0, 3).map((c, i) => ({ user_id, award: [3, 2, 1][i] }))
Podium(contenders) ==
    [i \in 1..(IF Len(contenders) < 3 THEN Len(contenders) ELSE 3) |->
        [user_id |-> contenders[i].user_id, award |-> PodiumAwards[i]]]

\* a variant that also awards a prediction one off the official value
PotwExact_WithinOne(rows, potwOfficial) ==
    IF IsNull(potwOfficial) THEN <<>>
    ELSE LET hit(p) == ~IsNull(p.potw_prediction)
                       /\ Abs(Val(p.potw_prediction) - Val(potwOfficial)) <= 1
             hits == SelectSeq(rows, hit)
         IN [i \in 1..Len(hits) |-> [user_id |-> hits[i].user_id, award |-> 3]]

\* the picks whose POTW prediction equals the official value, award 3 each
PotwExact(rows, potwOfficial) ==
    IF IsNull(potwOfficial) THEN <<>>
    ELSE LET hit(p) == ~IsNull(p.potw_prediction)
                       /\ Val(p.potw_prediction) = Val(potwOfficial)
             hits == SelectSeq(rows, hit)
         IN [i \in 1..Len(hits) |-> [user_id |-> hits[i].user_id, award |-> 3]]

\* the sum of the awards a list holds for user u
AwardsOf(list, u) ==
    SumSeq([i \in 1..Len(list) |-> IF list[i].user_id = u THEN list[i].award ELSE 0])

\* rows.sort((a, b) => b.total_points - a.total_points || a.name.localeCompare(b.name))
WeekRowLess(a, b) ==
    IF a.total_points # b.total_points THEN a.total_points > b.total_points
    ELSE NameLess(a.name, b.name)

\* a variant that doubles the base points only
WeekRow_BaseOnly(w, p, podium, potwExact, factor) ==
    LET base == BasePickPoints(w, p.team)
        base_points == base * factor
        gotw_points == AwardsOf(podium, p.user_id)
        potw_points == AwardsOf(potwExact, p.user_id)
    IN [user_id |-> p.user_id, name |-> FirstName(p.user_id),
        base_points |-> base_points, gotw_points |-> gotw_points,
        potw_points |-> potw_points,
        total_points |-> base_points + gotw_points + potw_points,
        correct_favorites |-> IF base = 1 THEN 1 ELSE 0,
        correct_underdogs |-> IF base = 2 THEN 1 ELSE 0,
        factor |-> factor]

\* The per-user row: base, GOTW and POTW points each carry the factor.
WeekRow(w, p, podium, potwExact, factor) ==
    LET base == BasePickPoints(w, p.team)
        base_points == base * factor
        gotw_points == AwardsOf(podium, p.user_id) * factor
        potw_points == AwardsOf(potwExact, p.user_id) * factor
    IN [user_id |-> p.user_id, name |-> FirstName(p.user_id),
        base_points |-> base_points, gotw_points |-> gotw_points,
        potw_points |-> potw_points,
        total_points |-> base_points + gotw_points + potw_points,
        correct_favorites |-> IF base = 1 THEN 1 ELSE 0,
        correct_underdogs |-> IF base = 2 THEN 1 ELSE 0,
        factor |-> factor]

\* rows: the week's picks in the order the store returned them
computeWeekTable(doubleWeeks, w, rows) ==
    LET gotwActual == GotwActualTotal(w)
        potwOfficial == PotwYards(w)
        podium == Podium(Contenders(rows, gotwActual, potwOfficial))
        potwExact == PotwExact(rows, potwOfficial)
        factor == Factor(doubleWeeks, w)
        byUser == [i \in 1..Len(rows) |-> WeekRow(w, rows[i], podium, potwExact, factor)]
    IN [week |-> w, factor |-> factor, gotw_actual |-> gotwActual,
        potw_actual |-> potwOfficial, podium |-> podium, potw_exact |-> potwExact,
        rows |-> StableSort(byUser, [j, i \in 1..Len(byUser) |->
                                        WeekRowLess(byUser[j], byUser[i])])]

PicksOfWeek(w) == {r \in picks : r.week = w}

\* GET /leaderboard/week/:week
LeaderboardWeek ==
    /\ response = NoResponse
    /\ \E w \in Weeks : \E rows \in Orderings(PicksOfWeek(w)) :
         response' = [handler |-> "leaderboardWeek", status |-> 200, week |-> w,
                      table |-> computeWeekTable(DOUBLE_WEEKS, w, rows)]
    /\ UNCHANGED <<now, games, picks, gotwTable, potwTable, lastSubmit,
                   oddsFeed, sdioFeed, runLog, evaluation, accounts>>


----------------------------------------------------------------------------
(* GET /leaderboard/overall: the season's standings                        *)

RECURSIVE SortedSeq(_)
\* the numbers of S, ascending (ORDER BY week ASC)
SortedSeq(S) ==
    IF S = {} THEN <<>>
    ELSE LET m == CHOOSE x \in S : \A y \in S : x <= y
         IN <<m>> \o SortedSeq(S \ {m})

RECURSIVE Concat(_)
Concat(ss) == IF ss = <<>> THEN <<>> ELSE Head(ss) \o Concat(Tail(ss))

\* the positions of s that hold the first row of their user
FirstOccurrences(s) ==
    SelectSeq([i \in 1..Len(s) |-> [i |-> i, v |-> s[i]]],
              LAMBDA e : \A k \in 1..(e.i - 1) : s[k].user_id # e.v.user_id)


\* the comparator of standings.sort
StandingLess(a, b) ==
    IF a.total_points # b.total_points THEN a.total_points > b.total_points
    ELSE IF a.gotw_firsts # b.gotw_firsts THEN a.gotw_firsts > b.gotw_firsts
    ELSE IF a.potw_exact # b.potw_exact THEN a.potw_exact > b.potw_exact
    ELSE NameLess(a.display_name, b.display_name)

\* order[w]: the order in which the store returns week w's picks
OverallStandings(doubleWeeks, order) ==
    LET weeks == SortedSeq({r.week : r \in picks})
        tables == [k \in 1..Len(weeks) |->
                      computeWeekTable(doubleWeeks, weeks[k], order[weeks[k]])]
        allRows == Concat([k \in 1..Len(weeks) |-> tables[k].rows])
        podiums == Concat([k \in 1..Len(weeks) |-> tables[k].podium])
        exacts == Concat([k \in 1..Len(weeks) |-> tables[k].potw_exact])
        firsts == FirstOccurrences(allRows)
        Agg(u) ==
            LET mine == SelectSeq(allRows, LAMBDA r : r.user_id = u)
            IN [user_id |-> u,
                display_name |-> mine[1].name,
                total_points |-> SumSeq([i \in 1..Len(mine) |-> mine[i].total_points]),
                correct_favorites |->
                    SumSeq([i \in 1..Len(mine) |-> mine[i].correct_favorites]),
                correct_underdogs |->
                    SumSeq([i \in 1..Len(mine) |-> mine[i].correct_underdogs]),
                weeks_scored |-> Len(SelectSeq(mine, LAMBDA r : r.total_points > 0)),
                gotw_firsts |->
                    Len(SelectSeq(podiums, LAMBDA a : a.award = 3 /\ a.user_id = u)),
                potw_exact |-> Len(SelectSeq(exacts, LAMBDA a : a.user_id = u))]
        byUser == [k \in 1..Len(firsts) |-> Agg(firsts[k].v.user_id)]
    IN StableSort(byUser, [j, i \in 1..Len(byUser) |-> StandingLess(byUser[j], byUser[i])])

\* one store order for each week
WeekOrders ==
    {f \in [Weeks -> UNION {Orderings(PicksOfWeek(w)) : w \in Weeks}] :
        \A w \in Weeks : f[w] \in Orderings(PicksOfWeek(w))}

LeaderboardOverall ==
    /\ response = NoResponse
    /\ \E order \in WeekOrders :
         response' = [handler |-> "leaderboardOverall", status |-> 200,
                      standings |-> OverallStandings(DOUBLE_WEEKS, order)]
    /\ UNCHANGED <<now, games, picks, gotwTable, potwTable, lastSubmit,
                   oddsFeed, sdioFeed, runLog, evaluation, accounts>>


----------------------------------------------------------------------------
(* GET /picks/week/:week/public                                            *)

\* weekMultiplier(week)
weekMultiplier(w) == IF w = 13 \/ w = 17 THEN 2 ELSE 1

\* an unlock at the kickoff itself, not at 18:00:00 of its date
getWeekUnlockUTC_AtKickoff(w) == firstSundayKickoffUTC(w)

\* 18:00:00 UTC on the date of the week's earliest Sunday game; Null when
\* the week has no Sunday game
getWeekUnlockUTC(w) ==
    LET sundayUTC == firstSundayKickoffUTC(w)
    IN IF IsNull(sundayUTC) THEN Null
       ELSE Some((Val(sundayUTC) \div MsPerDay) * MsPerDay + 18 * MsPerHour)

\* picks JOIN users JOIN games ON the picked team plays in the game
\*   LEFT JOIN game_of_the_week LEFT JOIN player_of_the_week, one week
PublicRows(w) ==
    LET gotw == {r \in gotwTable : r.week = w}
        potw == {r \in potwTable : r.week = w}
        gw == IF gotw = {} THEN [home_team |-> NoTeam, away_team |-> NoTeam,
                                 game_total_points |-> Null]
              ELSE CHOOSE r \in gotw : TRUE
    IN UNION {{[user_id |-> p.user_id, first_name |-> FirstName(p.user_id), team |-> p.team,
         potw_prediction |-> p.potw_prediction, gotw_prediction |-> p.gotw_prediction,
         home_team |-> games[id].home_team, away_team |-> games[id].away_team,
         home_score |-> games[id].home_score, away_score |-> games[id].away_score,
         favorite |-> games[id].favorite,
         gotw_home |-> gw.home_team, gotw_away |-> gw.away_team,
         game_total_points |-> gw.game_total_points,
         player_total_yards |-> IF potw = {} THEN Null
                                ELSE (CHOOSE r \in potw : TRUE).player_total_yards] :
        id \in gameForTeam(w, p.team)} : p \in PicksOfWeek(w)}

\* the view's own GOTW total: the final scores of the GOTW game, read from
\* the first pick row that belongs to that game
PublicGotwActualTotal(rows) ==
    IF rows[1].gotw_home # NoTeam /\ rows[1].gotw_away # NoTeam
    THEN LET at == {i \in 1..Len(rows) : /\ rows[i].home_team = rows[i].gotw_home
                                         /\ rows[i].away_team = rows[i].gotw_away}
         IN IF at # {} /\ ScoresKnown(rows[CHOOSE i \in at : \A k \in at : i <= k])
            THEN LET r == rows[CHOOSE i \in at : \A k \in at : i <= k]
                 IN Some(Val(r.home_score) + Val(r.away_score))
            ELSE Null
    ELSE Null

PublicGotwPick(r, gotwActualTotal, potwActualYards) ==
    [first_name |-> r.first_name,
     diff |-> IF IsNull(r.gotw_prediction) THEN Infinity
              ELSE Abs(Val(r.gotw_prediction) - Val(gotwActualTotal)),
     potw_diff |-> PotwDiff(r, potwActualYards)]

\* (a.diff - b.diff) || (a.potw_diff - b.potw_diff)
PublicGotwLess(a, b) ==
    IF a.diff # b.diff THEN a.diff < b.diff ELSE a.potw_diff < b.potw_diff

\* rank[i] of the sorted list: equal (diff, potw_diff) share a rank, the next
\* distinct entry takes its position
PublicRanks(sorted) ==
    [i \in 1..Len(sorted) |->
        CHOOSE k \in 1..i :
            /\ \A m \in k..i : sorted[m].diff = sorted[k].diff
                               /\ sorted[m].potw_diff = sorted[k].potw_diff
            /\ (k = 1 \/ ~(sorted[k - 1].diff = sorted[k].diff
                           /\ sorted[k - 1].potw_diff = sorted[k].potw_diff))]

\* gotwRanksByName[first_name] || null: the rank written last for the name,
\* 0 for none
PublicRankOf(sorted, name) ==
    LET at == {i \in 1..Len(sorted) : sorted[i].first_name = name}
    IN IF at = {} THEN 0
       ELSE PublicRanks(sorted)[CHOOSE i \in at : \A k \in at : k <= i]

PublicPickWithPoints(w, r, sorted, potwActualYards) ==
    LET decided == ScoresKnown(r) /\ Val(r.home_score) # Val(r.away_score)
        winner == IF Val(r.home_score) > Val(r.away_score) THEN r.home_team
                  ELSE r.away_team
        isCorrectPick == decided /\ r.team = winner
        isFavorite == r.favorite # NoTeam /\ r.team = r.favorite
        basePickPoints == IF isCorrectPick THEN (IF isFavorite THEN 1 ELSE 2) ELSE 0
        rank == PublicRankOf(sorted, r.first_name)
        gotwPoints == IF rank = 1 THEN 3 ELSE IF rank = 2 THEN 2
                      ELSE IF rank = 3 THEN 1 ELSE 0
        potwExact == /\ ~IsNull(potwActualYards) /\ ~IsNull(r.potw_prediction)
                     /\ Val(r.potw_prediction) = Val(potwActualYards)
    IN [user_id |-> r.user_id, first_name |-> r.first_name, team |-> r.team,
        gotw_prediction |-> r.gotw_prediction, potw_prediction |-> r.potw_prediction,
        is_correct_pick |-> isCorrectPick, base_points |-> basePickPoints,
        gotw_rank |-> rank, gotw_points |-> gotwPoints, potw_exact |-> potwExact,
        total_points |->
            weekMultiplier(w) * (basePickPoints + gotwPoints + (IF potwExact THEN 3 ELSE 0))]

\* the weekly winner: most points, ties to the closest POTW prediction
PublicWinnerNames(picksWithPoints, potwActualYards) ==
    LET maxPts == CHOOSE m \in {picksWithPoints[i].total_points : i \in 1..Len(picksWithPoints)} :
                      \A i \in 1..Len(picksWithPoints) : picksWithPoints[i].total_points <= m
        top == SelectSeq(picksWithPoints, LAMBDA p : p.total_points = maxPts)
        closer(a, b) == PotwDiff(a, potwActualYards) < PotwDiff(b, potwActualYards)
    IN {StableSort(top, [j, i \in 1..Len(top) |-> closer(top[j], top[i])])[1].first_name}

publicPicksHandler(w, rows) ==
    LET unlockUTC == getWeekUnlockUTC(w)
    IN IF ~IsNull(unlockUTC) /\ now < Val(unlockUTC)
       THEN [handler |-> "publicPicks", status |-> 200, week |-> w, locked |-> TRUE,
             gotw_actual |-> Null, picks |-> <<>>]
       ELSE IF rows = <<>>
       THEN [handler |-> "publicPicks", status |-> 200, week |-> w, locked |-> FALSE,
             gotw_actual |-> Null, picks |-> <<>>]
       ELSE LET gotwActualTotal == PublicGotwActualTotal(rows)
                potwActualYards == rows[1].player_total_yards
                gotwPicks == [i \in 1..Len(rows) |->
                                PublicGotwPick(rows[i], gotwActualTotal, potwActualYards)]
                sorted == IF IsNull(gotwActualTotal) THEN <<>>
                          ELSE StableSort(gotwPicks, [j, i \in 1..Len(gotwPicks) |->
                                              PublicGotwLess(gotwPicks[j], gotwPicks[i])])
                withPoints == [i \in 1..Len(rows) |->
                                 PublicPickWithPoints(w, rows[i], sorted, potwActualYards)]
                winners == PublicWinnerNames(withPoints, potwActualYards)
            IN [handler |-> "publicPicks", status |-> 200, week |-> w, locked |-> FALSE,
                gotw_actual |-> gotwActualTotal,
                picks |-> [i \in 1..Len(rows) |->
                             [user_id |-> withPoints[i].user_id,
                              first_name |-> withPoints[i].first_name,
                              team |-> withPoints[i].team,
                              gotw_prediction |-> withPoints[i].gotw_prediction,
                              potw_prediction |-> withPoints[i].potw_prediction,
                              is_correct_pick |-> withPoints[i].is_correct_pick,
                              base_points |-> withPoints[i].base_points,
                              gotw_rank |-> withPoints[i].gotw_rank,
                              gotw_points |-> withPoints[i].gotw_points,
                              potw_exact |-> withPoints[i].potw_exact,
                              total_points |-> withPoints[i].total_points,
                              is_weekly_winner |-> withPoints[i].first_name \in winners]]]

PublicPicks ==
    /\ response = NoResponse
    /\ \E w \in Weeks : \E rows \in Orderings(PublicRows(w)) :
         response' = publicPicksHandler(w, rows)
    /\ UNCHANGED <<now, games, picks, gotwTable, potwTable, lastSubmit,
                   oddsFeed, sdioFeed, runLog, evaluation, accounts>>


----------------------------------------------------------------------------
(* Table users.  The status columns differ between deployments: auth.js    *)
(* writes (approved, deactivated), adminUsers.js reads and writes          *)
(* (pending_approval, is_active).  A column that the table does not have   *)
(* is Null in the row (typeof u.col !== 'boolean').                        *)

\* the status columns of a deployment
Schemas == {"approved", "pending", "both", "bare"}
HasApproved(sch) == sch \in {"approved", "both"}
HasPending(sch) == sch \in {"pending", "both"}

\* a row of users; approved and active fill the columns that exist
UserRow(id, email, password, is_admin, approved, active, sch) ==
    [id |-> id, email |-> email, password |-> password, is_admin |-> is_admin,
     approved |-> IF HasApproved(sch) THEN Some(approved) ELSE Null,
     deactivated |-> IF HasApproved(sch) THEN Some(~active) ELSE Null,
     pending_approval |-> IF HasPending(sch) THEN Some(~approved) ELSE Null,
     is_active |-> IF HasPending(sch) THEN Some(active) ELSE Null]

\* the seeded accounts: two approved admins and an approved participant
SeededUsers(sch) ==
    (1 :> UserRow(1, "alice@nfl.test", "pw-alice", TRUE, TRUE, TRUE, sch)) @@
    (2 :> UserRow(2, "bob@nfl.test", "pw-bob", TRUE, TRUE, TRUE, sch)) @@
    (3 :> UserRow(3, "bobby@nfl.test", "pw-bobby", FALSE, TRUE, TRUE, sch))

\* the account tables at rest, for the specifications that do not use them
NoAccountActivity ==
    /\ schema = "both"
    /\ users = SeededUsers(schema)
    /\ resetTokens = << >>
    /\ inflight = {}

\* no helper called
NoEvaluation == [fn |-> "none"]

\* the runs of one behaviour
MaxRuns == 2

NoRun == [script |-> "none", run |-> 0]

\* a source that answered with no entries
NoFeed == [ok |-> TRUE, events |-> <<>>]

Init ==
    /\ now = At(2, 12, 0)
    /\ games = SeededGames
    /\ picks = {}
    /\ gotwTable = {}
    /\ potwTable = {}
    /\ lastSubmit = {}
    /\ response = NoResponse
    /\ oddsFeed = NoFeed
    /\ sdioFeed = NoFeed
    /\ runLog = NoRun
    /\ evaluation = NoEvaluation
    /\ NoAccountActivity

Next == SubmitPick \/ Tick \/ ResponseSent

Spec == Init /\ [][Next]_vars

----------------------------------------------------------------------------
(* The scoring specification: the database is drawn from bounded sets and  *)
(* one read-only request is served from it.                                *)

FeaturedGame(w) == IF w = 12 THEN 2 ELSE 3
OtherWeek(w) == IF w = 12 THEN 13 ELSE 12

ScoreOutcomes ==
    { <<Null, Null>>, <<Some(27), Some(20)>>, <<Some(20), Some(27)>>,
      <<Some(20), Some(20)>>, <<Some(27), Null>> }

WithResult(g, outcome, favorite) ==
    [g EXCEPT !.home_score = outcome[1], !.away_score = outcome[2],
              !.favorite = favorite]

FavoriteChoices(g) == {g.home_team, g.away_team, NoTeam}

\* created_at of the seeded picks: user 3 submitted first, 1 and 2 together
SeedCreatedAt(u) == IF u = 3 THEN At(2, 9, 0) ELSE At(2, 10, 0)

\* a user's pick in week w: none, or one of the choices
SeedPicks(w, choice) ==
    {PickRow(u, w, choice[u].team, choice[u].potw, choice[u].gotw, SeedCreatedAt(u)) :
        u \in {x \in Users : choice[x].team # NoTeam}}

NoPick == [team |-> NoTeam, gotw |-> Null, potw |-> Null]

\* Family A: the game's result, its favorite and the teams picked by users
\* 2 and 3 vary.
TeamOnlyChoices ==
    {NoPick} \cup {[team |-> t, gotw |-> Null, potw |-> Null] : t \in {Bills, Dolphins, Wildcats}}

InitBaseScoring ==
    \E w \in Weeks, outcome \in ScoreOutcomes :
    \E fav \in FavoriteChoices(SeededGames[FeaturedGame(w)]) :
    \E choice \in {c \in [Users -> TeamOnlyChoices] : c[1] = NoPick} :
        /\ games = [SeededGames EXCEPT ![FeaturedGame(w)] = WithResult(@, outcome, fav)]
        /\ picks = SeedPicks(w, choice)
        /\ gotwTable = {}
        /\ potwTable = {}

\* Family B: the GOTW and POTW answers and the predictions vary; the other
\* week holds one scored pick, so that the season sums two weeks.
GotwPredictions == {Null, Some(40), Some(50)}
PotwPredictions == {Null, Some(111), Some(112)}

BonusChoices(w) ==
    {NoPick} \cup {[team |-> SeededGames[FeaturedGame(w)].home_team, gotw |-> g, potw |-> y] :
                     g \in GotwPredictions, y \in PotwPredictions}

\* users 2 and 3: no pick, 40 without a POTW prediction, or 50 with one
LaterChoices(w) ==
    {c \in BonusChoices(w) : \/ c = NoPick
                             \/ c.gotw = Some(40) /\ c.potw = Null
                             \/ c.gotw = Some(50) /\ c.potw = Some(112)}

GotwRow(w, total) ==
    [week |-> w, home_team |-> SeededGames[FeaturedGame(w)].home_team,
     away_team |-> SeededGames[FeaturedGame(w)].away_team, game_total_points |-> total]

GotwTables(w) == {{}, {GotwRow(w, Null)}, {GotwRow(w, Some(45))}}

PotwTables(w) == {{}, {[week |-> w, player_total_yards |-> Some(112)]}}

InitBonusScoring ==
    \E w \in Weeks, outcome \in {<<Null, Null>>, <<Some(27), Some(20)>>} :
    \E gt \in GotwTables(w), pt \in PotwTables(w) :
    \E choice \in {c \in [Users -> BonusChoices(w)] : \A u \in {2, 3} : c[u] \in LaterChoices(w)} :
        LET o == OtherWeek(w)
            g == SeededGames[FeaturedGame(w)]
            og == SeededGames[FeaturedGame(o)]
        IN /\ games = [SeededGames EXCEPT
                         ![FeaturedGame(w)] = WithResult(@, outcome, g.home_team),
                         ![FeaturedGame(o)] = WithResult(@, <<Some(20), Some(27)>>, NoTeam)]
           /\ picks = SeedPicks(w, choice)
                        \cup {PickRow(2, o, og.away_team, Null, Null, SeedCreatedAt(2))}
           /\ gotwTable = gt
           /\ potwTable = pt

InitScore ==
    /\ now = At(11, 0, 0)
    /\ InitBaseScoring \/ InitBonusScoring
    /\ lastSubmit = {}
    /\ response = NoResponse
    /\ oddsFeed = NoFeed
    /\ sdioFeed = NoFeed
    /\ runLog = NoRun
    /\ evaluation = NoEvaluation
    /\ NoAccountActivity

NextScore == LeaderboardWeek \/ LeaderboardOverall \/ PublicPicks \/ ResponseSent

SpecScore == InitScore /\ [][NextScore]_vars

----------------------------------------------------------------------------
(* The kickoff reconcilers: syncKickoffsFromSportsdata.js, resyncKickoffs   *)
(* and shiftKickoffsByDrift.js                                             *)

\* What a lookup of "constructor" in an object literal yields: the function
\* Object, inherited from Object.prototype, which is truthy and no string
ObjectFunction == "[Function: Object]"

\* (s || "").toLowerCase of a value without that method
TypeError == "TypeError: toLowerCase is not a function"

\* s.toLowerCase().replace(/[^a-z0-9]/g, "") of the spellings that it changes
LowerCaseAlnum ==
    "Arizona Cardinals" :> "arizonacardinals" @@
    "Atlanta Falcons" :> "atlantafalcons" @@
    "Baltimore Ravens" :> "baltimoreravens" @@
    "Buffalo Bills" :> "buffalobills" @@
    "Carolina Panthers" :> "carolinapanthers" @@
    "Chicago Bears" :> "chicagobears" @@
    "Cincinnati Bengals" :> "cincinnatibengals" @@
    "Cleveland Browns" :> "clevelandbrowns" @@
    "Dallas Cowboys" :> "dallascowboys" @@
    "Denver Broncos" :> "denverbroncos" @@
    "Detroit Lions" :> "detroitlions" @@
    "Green Bay Packers" :> "greenbaypackers" @@
    "Houston Texans" :> "houstontexans" @@
    "Indianapolis Colts" :> "indianapoliscolts" @@
    "Jacksonville Jaguars" :> "jacksonvillejaguars" @@
    "Kansas City Chiefs" :> "kansascitychiefs" @@
    "Las Vegas Raiders" :> "lasvegasraiders" @@
    "Los Angeles Chargers" :> "losangeleschargers" @@
    "Los Angeles Rams" :> "losangelesrams" @@
    "Miami Dolphins" :> "miamidolphins" @@
    "Minnesota Vikings" :> "minnesotavikings" @@
    "New England Patriots" :> "newenglandpatriots" @@
    "New Orleans Saints" :> "neworleanssaints" @@
    "New York Giants" :> "newyorkgiants" @@
    "New York Jets" :> "newyorkjets" @@
    "Philadelphia Eagles" :> "philadelphiaeagles" @@
    "Pittsburgh Steelers" :> "pittsburghsteelers" @@
    "San Francisco 49ers" :> "sanfrancisco49ers" @@
    "Seattle Seahawks" :> "seattleseahawks" @@
    "Tampa Bay Buccaneers" :> "tampabaybuccaneers" @@
    "Tennessee Titans" :> "tennesseetitans" @@
    "Washington Commanders" :> "washingtoncommanders" @@
    "Cardinals" :> "cardinals" @@
    "Falcons" :> "falcons" @@
    "Ravens" :> "ravens" @@
    "Bills" :> "bills" @@
    "Panthers" :> "panthers" @@
    "Bears" :> "bears" @@
    "Bengals" :> "bengals" @@
    "Browns" :> "browns" @@
    "Cowboys" :> "cowboys" @@
    "Broncos" :> "broncos" @@
    "Lions" :> "lions" @@
    "Packers" :> "packers" @@
    "Texans" :> "texans" @@
    "Colts" :> "colts" @@
    "Jaguars" :> "jaguars" @@
    "Chiefs" :> "chiefs" @@
    "Raiders" :> "raiders" @@
    "Chargers" :> "chargers" @@
    "Rams" :> "rams" @@
    "Dolphins" :> "dolphins" @@
    "Vikings" :> "vikings" @@
    "Patriots" :> "patriots" @@
    "Saints" :> "saints" @@
    "Giants" :> "giants" @@
    "Jets" :> "jets" @@
    "Eagles" :> "eagles" @@
    "Steelers" :> "steelers" @@
    "Seahawks" :> "seahawks" @@
    "Buccaneers" :> "buccaneers" @@
    "Titans" :> "titans" @@
    "Commanders" :> "commanders" @@
    "Niners" :> "niners" @@
    "Bucs" :> "bucs" @@
    "Jags" :> "jags" @@
    "LA Rams" :> "larams" @@
    "LA Chargers" :> "lachargers" @@
    "NY Jets" :> "nyjets" @@
    "NY Giants" :> "nygiants" @@
    "KC Chiefs" :> "kcchiefs" @@
    "NE Patriots" :> "nepatriots" @@
    "NO Saints" :> "nosaints" @@
    "SF 49ers" :> "sf49ers" @@
    "TB Buccaneers" :> "tbbuccaneers" @@
    "TB Bucs" :> "tbbucs" @@
    "GB Packers" :> "gbpackers" @@
    "LV Raiders" :> "lvraiders" @@
    "JAX Jaguars" :> "jaxjaguars" @@
    "WAS Commanders" :> "wascommanders" @@
    "WAS Football Team" :> "wasfootballteam" @@
    "Washington Football Team" :> "washingtonfootballteam" @@
    "SF" :> "sf" @@
    "BUF" :> "buf" @@
    "KC" :> "kc" @@
    "Arizona Wildcats" :> "arizonawildcats" @@
    "Constructor" :> "constructor"

\* slug(s): lower case, everything but a-z0-9 removed
slug(raw) ==
    IF raw = ObjectFunction THEN TypeError
    ELSE IF raw \in DOMAIN LowerCaseAlnum THEN LowerCaseAlnum[raw] ELSE raw

\* const map of canonicalTeam, with what the object literal inherits
TeamMap ==
    "cardinals" :> "arizonacardinals" @@
    "falcons" :> "atlantafalcons" @@
    "ravens" :> "baltimoreravens" @@
    "bills" :> "buffalobills" @@
    "panthers" :> "carolinapanthers" @@
    "bears" :> "chicagobears" @@
    "bengals" :> "cincinnatibengals" @@
    "browns" :> "clevelandbrowns" @@
    "cowboys" :> "dallascowboys" @@
    "broncos" :> "denverbroncos" @@
    "lions" :> "detroitlions" @@
    "packers" :> "greenbaypackers" @@
    "gbpackers" :> "greenbaypackers" @@
    "texans" :> "houstontexans" @@
    "colts" :> "indianapoliscolts" @@
    "jags" :> "jacksonvillejaguars" @@
    "jaguars" :> "jacksonvillejaguars" @@
    "chiefs" :> "kansascitychiefs" @@
    "kcchiefs" :> "kansascitychiefs" @@
    "raiders" :> "lasvegasraiders" @@
    "chargers" :> "losangeleschargers" @@
    "lachargers" :> "losangeleschargers" @@
    "rams" :> "losangelesrams" @@
    "larams" :> "losangelesrams" @@
    "dolphins" :> "miamidolphins" @@
    "vikings" :> "minnesotavikings" @@
    "patriots" :> "newenglandpatriots" @@
    "nepatriots" :> "newenglandpatriots" @@
    "saints" :> "neworleanssaints" @@
    "giants" :> "newyorkgiants" @@
    "nygiants" :> "newyorkgiants" @@
    "jets" :> "newyorkjets" @@
    "nyjets" :> "newyorkjets" @@
    "eagles" :> "philadelphiaeagles" @@
    "steelers" :> "pittsburghsteelers" @@
    "49ers" :> "sanfrancisco49ers" @@
    "niners" :> "sanfrancisco49ers" @@
    "seahawks" :> "seattleseahawks" @@
    "buccaneers" :> "tampabaybuccaneers" @@
    "bucs" :> "tampabaybuccaneers" @@
    "titans" :> "tennesseetitans" @@
    "commanders" :> "washingtoncommanders" @@
    "washingtonfootballteam" :> "washingtoncommanders" @@
    "constructor" :> ObjectFunction

\* canonicalTeam(raw) of syncKickoffsFromSportsdata.js: map[x] when it is
\* truthy, else the slug as it is (the entries that map a slug to itself
\* are left to the last line)
canonicalTeam(raw) ==
    LET x == slug(raw)
    IN IF x \in DOMAIN TeamMap THEN TeamMap[x] ELSE x

\* the slugs the twelve replace rules change, and what they leave
Expanded ==
    "gbpackers" :> "greenbaypackers" @@
    "jaxjaguars" :> "jacksonvillejaguars" @@
    "kcchiefs" :> "kansascitychiefs" @@
    "lachargers" :> "losangeleschargers" @@
    "larams" :> "losangelesrams" @@
    "lvraiders" :> "lasvegasraiders" @@
    "nepatriots" :> "newenglandpatriots" @@
    "nosaints" :> "neworleanssaints" @@
    "nygiants" :> "newyorkgiants" @@
    "nyjets" :> "newyorkjets" @@
    "sf49ers" :> "sanfrancisco49ers" @@
    "tbbuccaneers" :> "tampabaybuccaneers" @@
    "tbbucs" :> "tampabaybucs" @@
    "wascommanders" :> "washingtoncommanderscommanders" @@
    "wasfootballteam" :> "washingtoncommandersfootballteam" @@
    "washingtonfootballteam" :> "washingtoncommandersfootballteam"

\* the twelve x.replace(/^la(?=(rams|chargers)$)/, "losangeles") ... of
\* canonicalSlug, one after the other: a city abbreviation in front of the
\* nickname is expanded
CityAbbreviation(x) ==
    IF x \in DOMAIN Expanded THEN Expanded[x] ELSE x

\* const nicknameToCity, with what the object literal inherits
NicknameTable ==
    "cardinals" :> "arizonacardinals" @@
    "falcons" :> "atlantafalcons" @@
    "ravens" :> "baltimoreravens" @@
    "bills" :> "buffalobills" @@
    "panthers" :> "carolinapanthers" @@
    "bears" :> "chicagobears" @@
    "bengals" :> "cincinnatibengals" @@
    "browns" :> "clevelandbrowns" @@
    "cowboys" :> "dallascowboys" @@
    "broncos" :> "denverbroncos" @@
    "lions" :> "detroitlions" @@
    "packers" :> "greenbaypackers" @@
    "texans" :> "houstontexans" @@
    "colts" :> "indianapoliscolts" @@
    "jaguars" :> "jacksonvillejaguars" @@
    "chiefs" :> "kansascitychiefs" @@
    "raiders" :> "lasvegasraiders" @@
    "chargers" :> "losangeleschargers" @@
    "rams" :> "losangelesrams" @@
    "dolphins" :> "miamidolphins" @@
    "vikings" :> "minnesotavikings" @@
    "patriots" :> "newenglandpatriots" @@
    "saints" :> "neworleanssaints" @@
    "giants" :> "newyorkgiants" @@
    "jets" :> "newyorkjets" @@
    "eagles" :> "philadelphiaeagles" @@
    "steelers" :> "pittsburghsteelers" @@
    "niners" :> "sanfrancisco49ers" @@
    "49ers" :> "sanfrancisco49ers" @@
    "seahawks" :> "seattleseahawks" @@
    "buccaneers" :> "tampabaybuccaneers" @@
    "bucs" :> "tampabaybuccaneers" @@
    "titans" :> "tennesseetitans" @@
    "commanders" :> "washingtoncommanders" @@
    "constructor" :> ObjectFunction

\* if (nicknameToCity[x]) return nicknameToCity[x]; return x;
nicknameToCity(x) ==
    IF x \in DOMAIN NicknameTable THEN NicknameTable[x] ELSE x

\* canonicalSlug(raw) of resyncKickoffs and of fetchOdds.js: the city
\* abbreviation expanded, then the nickname mapped to city + nickname
canonicalSlug(raw) == nicknameToCity(CityAbbreviation(slug(raw)))

\* canonicalSlug(raw) of shiftKickoffsByDrift.js: the same rules; its
\* nicknameToCity has no entry for bucs
shiftCanonicalSlug(raw) ==
    LET x == CityAbbreviation(slug(raw))
    IN IF x = "bucs" THEN x ELSE nicknameToCity(x)

\* matchKey of syncKickoffsFromSportsdata.js:
\* `${canonicalTeam(home)}__${canonicalTeam(away)}`
matchKey(home, away) == <<canonicalTeam(home), canonicalTeam(away)>>

\* matchKey of resyncKickoffs, matchupKey of shiftKickoffsByDrift.js:
\* `${canonicalSlug(home)}__${canonicalSlug(away)}`
matchupKey(home, away) == <<canonicalSlug(home), canonicalSlug(away)>>

\* the greatest index of a non-empty set of indices: the last map.set wins
Last(at) == CHOOSE i \in at : \A k \in at : k <= i

\* fetchSportsdataSchedule().get(key) of syncKickoffsFromSportsdata.js: every
\* schedule entry sets the key of both orientations
SyncSchedule(key) ==
    LET ev == sdioFeed.events
        at == {i \in 1..Len(ev) : \/ matchKey(ev[i].home_team, ev[i].away_team) = key
                                  \/ matchKey(ev[i].away_team, ev[i].home_team) = key}
    IN IF at = {} THEN Null ELSE Some(ev[Last(at)].DateTimeUTC)

\* fetchOddsCommenceMap().get(key), fetchOddsSnapshot().get(key): every event
\* sets the key of both orientations; the resync script goes on with an
\* empty map when the fetch fails
OddsCommence(key) ==
    LET ev == oddsFeed.events
        at == {i \in 1..Len(ev) : \/ matchupKey(ev[i].home_team, ev[i].away_team) = key
                                  \/ matchupKey(ev[i].away_team, ev[i].home_team) = key}
    IN IF ~oddsFeed.ok \/ at = {} THEN Null ELSE Some(ev[Last(at)].commence_time)

\* fetchSportsdataScheduleMap().get(`${week}|${key}`): home/away as listed
SdioScheduled(week, key) ==
    LET at == {i \in 1..Len(sdioFeed.events) :
                 /\ sdioFeed.events[i].week = week
                 /\ matchupKey(sdioFeed.events[i].home_team,
                               sdioFeed.events[i].away_team) = key}
    IN IF at = {} THEN Null
       ELSE Some(sdioFeed.events[Last(at)].DateTimeUTC)

\* if >= 60s difference, we correct
MAX_DELTA_SEC == 60

\* One audit line: the game, its stored kickoff, the resolved instant and
\* whether the run executed an UPDATE for it.
AuditLine(id, to, source, written) ==
    [id |-> id, db |-> games[id].kickoff, to |-> to, source |-> source,
     written |-> written]

\* a variant that stores the instant as Phoenix wall-clock time (UTC-7)
Applied_AsLocalTime(audit) ==
    [id \in DOMAIN games |->
        IF \E a \in audit : a.id = id /\ a.written
        THEN [games[id] EXCEPT
                !.kickoff = Some((CHOOSE a \in audit : a.id = id).to - 7 * MsPerHour)]
        ELSE games[id]]

\* games after the UPDATEs of a run
Applied(audit) ==
    [id \in DOMAIN games |->
        IF \E a \in audit : a.id = id /\ a.written
        THEN [games[id] EXCEPT !.kickoff = Some((CHOOSE a \in audit : a.id = id).to)]
        ELSE games[id]]

\* ORDER BY week, kickoff, id of the scripts' SELECT, on audit lines: a
\* missing kickoff sorts last
QueryOrderBefore(a, b) ==
    LET wa == games[a.id].week
        wb == games[b.id].week
    IN \/ wa < wb
       \/ /\ wa = wb
          /\ \/ ~IsNull(a.db) /\ IsNull(b.db)
             \/ ~IsNull(a.db) /\ ~IsNull(b.db) /\ Val(a.db) < Val(b.db)
             \/ a.db = b.db /\ a.id < b.id

\* the UPDATEs a run gets through: every one it decided on, or, when the
\* store rejects a statement after `fail` of them succeeded, those before
\* it. Each UPDATE is a statement of its own on the client: no BEGIN, no
\* ROLLBACK.
Executed(audit, fail) ==
    IF IsNull(fail) THEN audit
    ELSE {[a EXCEPT !.written =
              /\ a.written
              /\ Cardinality({b \in audit : b.written /\ QueryOrderBefore(b, a)})
                   < Val(fail)] : a \in audit}

\* a run whose statement was rejected ends in its catch handler
RunStatus(audit, fail) ==
    IF ~IsNull(fail) /\ Cardinality({a \in audit : a.written}) > Val(fail)
    THEN "fatal"
    ELSE "ok"

RunRecord(script, status, APPLY, FORCE, MIN_WEEK, threshold, audit, skipped) ==
    [script |-> script, status |-> status, apply |-> APPLY, force |-> FORCE,
     min_week |-> MIN_WEEK, threshold |-> threshold, audit |-> audit,
     skipped |-> skipped,
     at |-> now,
     run |-> runLog.run + 1,
     writes |-> Cardinality({a \in audit : a.written}),
     \* the run repeats the one before: same script and options, both
     \* applied and completed
     repeat |-> /\ runLog.script = script
                /\ runLog.status = "ok" /\ status = "ok"
                /\ runLog.apply /\ APPLY
                /\ runLog.force = FORCE /\ runLog.min_week = MIN_WEEK
                /\ runLog.threshold = threshold]

\* main() of syncKickoffsFromSportsdata.js
syncKickoffsMain(APPLY, MIN_WEEK, fail) ==
    IF ~sdioFeed.ok
    THEN /\ runLog' = RunRecord("sync", "failed", APPLY, FALSE, MIN_WEEK, MAX_DELTA_SEC,
                                {}, {})
         /\ UNCHANGED games
    ELSE LET dbGames == {id \in DOMAIN games : /\ ~IsNull(games[id].kickoff)
                                               /\ games[id].week >= MIN_WEEK}
             key(id) == matchKey(games[id].home_team, games[id].away_team)
             deltaSec(id) == MathRound(Val(SyncSchedule(key(id))) - Val(games[id].kickoff),
                                       MsPerSecond)
             table == {id \in dbGames : /\ ~IsNull(SyncSchedule(key(id)))
                                        /\ Abs(deltaSec(id)) >= MAX_DELTA_SEC}
             audit == {AuditLine(id, Val(SyncSchedule(key(id))), "sportsdata",
                                 APPLY /\ id \in table) :
                          id \in {x \in dbGames : ~IsNull(SyncSchedule(key(x)))}}
             done == Executed(audit, fail)
         IN /\ games' = Applied(done)
            /\ runLog' = RunRecord("sync", RunStatus(audit, fail), APPLY, FALSE, MIN_WEEK,
                                   MAX_DELTA_SEC, done, {})

\* a variant of the precedence that asks SportsDataIO first
targetIso_SportsdataFirst(week, key) ==
    IF ~IsNull(SdioScheduled(week, key)) THEN SdioScheduled(week, key)
    ELSE OddsCommence(key)

\* targetIso of resyncKickoffs: The Odds API commence_time when its map has
\* the key, else the SportsDataIO time of `${week}|${key}`, else none
targetIso(week, key) ==
    IF ~IsNull(OddsCommence(key)) THEN OddsCommence(key)
    ELSE SdioScheduled(week, key)

\* main() of resyncKickoffs: The Odds API first, SportsDataIO as fallback
resyncKickoffsMain(APPLY, FORCE, MIN_WEEK, DIFF_MIN, fail) ==
    IF ~sdioFeed.ok
    THEN /\ runLog' = RunRecord("resync", "failed", APPLY, FORCE, MIN_WEEK, DIFF_MIN,
                                {}, {})
         /\ UNCHANGED games
    ELSE LET dbGames == {id \in DOMAIN games : games[id].week >= MIN_WEEK}
             key(id) == matchupKey(games[id].home_team, games[id].away_team)
             oddsKick(id) == OddsCommence(key(id))
             target(id) == targetIso(games[id].week, key(id))
             shouldWrite(id) ==
                 \/ FORCE
                 \/ IsNull(games[id].kickoff)
                 \/ Abs(Val(target(id)) - Val(games[id].kickoff)) >= DIFF_MIN * MsPerMinute
             audit == {AuditLine(id, Val(target(id)),
                                 IF ~IsNull(oddsKick(id)) THEN "odds" ELSE "sportsdata",
                                 shouldWrite(id) /\ APPLY) :
                          id \in {x \in dbGames : ~IsNull(target(x))}}
             skipped == {id \in dbGames : IsNull(target(id))}
             done == Executed(audit, fail)
         IN /\ games' = Applied(done)
            /\ runLog' = RunRecord("resync", RunStatus(audit, fail), APPLY, FORCE,
                                   MIN_WEEK, DIFF_MIN, done, skipped)

\* main() of shiftKickoffsByDrift.js
shiftKickoffsMain(APPLY, MIN_WEEK, THRESH_MIN, fail) ==
    IF ~oddsFeed.ok
    THEN /\ runLog' = RunRecord("shift", "failed", APPLY, FALSE, MIN_WEEK, THRESH_MIN,
                                {}, {})
         /\ UNCHANGED games
    ELSE LET dbGames == {id \in DOMAIN games : games[id].week >= MIN_WEEK}
             key(id) == matchupKey(games[id].home_team, games[id].away_team)
             hit(id) == OddsCommence(key(id))
             joined == {id \in dbGames : ~IsNull(hit(id)) /\ ~IsNull(games[id].kickoff)}
             deltaMin(id) == MathRound(Val(hit(id)) - Val(games[id].kickoff), MsPerMinute)
             toFix == {id \in joined : Abs(deltaMin(id)) >= THRESH_MIN}
             audit == {AuditLine(id, Val(hit(id)), "odds", APPLY /\ id \in toFix) :
                          id \in joined}
             done == Executed(audit, fail)
         IN /\ games' = Applied(done)
            /\ runLog' = RunRecord("shift", RunStatus(audit, fail), APPLY, FALSE, MIN_WEEK,
                                   THRESH_MIN, done, {})

\* The earlier syncKickoffsFromSportsdata.js, which corrects the weeks after
\* the current one. keyMatch: `${slugTeam(home)}__${slugTeam(away)}`, the
\* slug alone
keyMatch(home, away) == <<slug(home), slug(away)>>

\* update only if |delta| >= 60 minutes
UPDATE_THRESHOLD_MIN == 60

\* toUtcDate(s) on the schedule's DateTime: new Date() of a string without
\* an offset reads its wall-clock fields in the zone of the process, UTC on
\* the server
toUtcDate(wallClock) == wallClock

\* fetchSportsdataSchedule().get(k) of that script: one orientation, no
\* week, g.Date || g.DateTime
FutureSchedule(key) ==
    LET ev == sdioFeed.events
        at == {i \in 1..Len(ev) : keyMatch(ev[i].home_team, ev[i].away_team) = key}
    IN IF at = {} THEN Null ELSE Some(toUtcDate(ev[Last(at)].DateTime))

\* COALESCE(MAX(week) FILTER (WHERE kickoff <= now()), MIN(week))
getCurrentWeek ==
    LET started == {games[id].week : id \in {x \in DOMAIN games :
                        ~IsNull(games[x].kickoff) /\ Val(games[x].kickoff) <= now}}
        all == {games[id].week : id \in DOMAIN games}
    IN IF started # {} THEN CHOOSE w \in started : \A v \in started : v <= w
       ELSE CHOOSE w \in all : \A v \in all : w <= v

\* main() of that script: it reads no APPLY; every pending correction is
\* written. The Odds API is fetched for the printed comparison only.
syncFutureWeeksMain(APPLY, fail) ==
    LET weekMin == getCurrentWeek + 1
    IN IF ~sdioFeed.ok
       THEN /\ runLog' = RunRecord("syncFuture", "failed", APPLY, FALSE, weekMin,
                                   UPDATE_THRESHOLD_MIN, {}, {})
            /\ UNCHANGED games
       ELSE LET dbRows == {id \in DOMAIN games : games[id].week >= weekMin}
                k(id) == keyMatch(games[id].home_team, games[id].away_team)
                sd(id) == FutureSchedule(k(id))
                deltaToSD(id) == MathRound(Val(sd(id)) - Val(games[id].kickoff), MsPerMinute)
                pending == {id \in dbRows :
                              /\ ~IsNull(sd(id))
                              /\ \/ IsNull(games[id].kickoff)
                                 \/ Abs(deltaToSD(id)) >= UPDATE_THRESHOLD_MIN}
                audit == {AuditLine(id, Val(sd(id)), "sportsdata", id \in pending) :
                             id \in {x \in dbRows : ~IsNull(sd(x))}}
                skipped == {id \in dbRows : IsNull(sd(id))}
                done == Executed(audit, fail)
            IN /\ games' = Applied(done)
               /\ runLog' = RunRecord("syncFuture", RunStatus(audit, fail), APPLY, FALSE,
                                      weekMin, UPDATE_THRESHOLD_MIN, done, skipped)

ApplyModes == BOOLEAN
ForceModes == BOOLEAN
MinWeeks == {12, 13}
DiffMins == {0, 1}
ThreshMins == {1, 60}
\* no statement rejected, or the second one
WriteFailures == {Null, Some(1)}

SyncKickoffs ==
    /\ runLog.run < MaxRuns
    /\ \E APPLY \in ApplyModes, MIN_WEEK \in MinWeeks, fail \in WriteFailures :
         syncKickoffsMain(APPLY, MIN_WEEK, fail)
    /\ UNCHANGED <<now, picks, gotwTable, potwTable, lastSubmit, response,
                   oddsFeed, sdioFeed, evaluation, accounts>>

ResyncKickoffs ==
    /\ runLog.run < MaxRuns
    /\ \E APPLY \in ApplyModes, FORCE \in ForceModes, MIN_WEEK \in MinWeeks,
          DIFF_MIN \in DiffMins, fail \in WriteFailures :
         resyncKickoffsMain(APPLY, FORCE, MIN_WEEK, DIFF_MIN, fail)
    /\ UNCHANGED <<now, picks, gotwTable, potwTable, lastSubmit, response,
                   oddsFeed, sdioFeed, evaluation, accounts>>

ShiftKickoffs ==
    /\ runLog.run < MaxRuns
    /\ \E APPLY \in ApplyModes, MIN_WEEK \in MinWeeks, THRESH_MIN \in ThreshMins,
          fail \in WriteFailures :
         shiftKickoffsMain(APPLY, MIN_WEEK, THRESH_MIN, fail)
    /\ UNCHANGED <<now, picks, gotwTable, potwTable, lastSubmit, response,
                   oddsFeed, sdioFeed, evaluation, accounts>>

SyncFutureWeeks ==
    /\ runLog.run < MaxRuns
    /\ \E APPLY \in ApplyModes, fail \in WriteFailures : syncFutureWeeksMain(APPLY, fail)
    /\ UNCHANGED <<now, picks, gotwTable, potwTable, lastSubmit, response,
                   oddsFeed, sdioFeed, evaluation, accounts>>

\* The sources. SportsDataIO lists every game of the schedule; game 1 under
\* a short name and at a drift to the stored kickoff. The Odds API lists the
\* upcoming return fixture only.
Drifts == {0, 59 * MsPerSecond, 59500, 60 * MsPerSecond, 61 * MsPerSecond,
           0 - 59500}

SdioEvent(w, home, away, t) ==
    [week |-> w, home_team |-> home, away_team |-> away, DateTimeUTC |-> t,
     \* the Eastern wall clock of the same instant: standard time, UTC-5
     DateTime |-> t - 5 * MsPerHour]

OddsEvent(home, away, t) ==
    [home_team |-> home, away_team |-> away, commence_time |-> t]

FailedFeed == [ok |-> FALSE, events |-> <<>>]

SdioFeeds ==
    {FailedFeed,
     \* the week-12 Sunday game missing from the schedule
     [ok |-> TRUE,
      events |-> <<SdioEvent(12, Chiefs, Raiders, At(1, 1, 15)),
                   SdioEvent(13, Dolphins, Bills, At(10, 18, 0))>>]} \cup
    {[ok |-> TRUE,
      events |-> <<SdioEvent(12, "KC Chiefs", Raiders, At(1, 1, 15) + d1),
                   SdioEvent(12, Bills, Dolphins, At(3, 17, 0)),
                   SdioEvent(13, Dolphins, Bills, At(10, 18, 0))>>] :
        d1 \in Drifts}

OddsFeeds ==
    {FailedFeed, NoFeed,
     \* the Thursday game alone, moved by an hour
     [ok |-> TRUE, events |-> <<OddsEvent(Chiefs, Raiders, At(1, 2, 15))>>]} \cup
    {[ok |-> TRUE, events |-> <<OddsEvent(Dolphins, Bills, At(10, 18, 0) + e)>>] :
        e \in {0, 59500, MsPerHour}}

InitRecon ==
    /\ now = At(2, 12, 0)
    /\ \E ko \in {Null, Some(At(1, 1, 15))} :
         games = [SeededGames EXCEPT ![1].kickoff = ko]
    /\ picks = {}
    /\ gotwTable = {}
    /\ potwTable = {}
    /\ lastSubmit = {}
    /\ response = NoResponse
    /\ oddsFeed \in OddsFeeds
    /\ sdioFeed \in SdioFeeds
    /\ runLog = NoRun
    /\ evaluation = NoEvaluation
    /\ NoAccountActivity

NextRecon == SyncKickoffs \/ ResyncKickoffs \/ ShiftKickoffs \/ SyncFutureWeeks

SpecRecon == InitRecon /\ [][NextRecon]_vars

----------------------------------------------------------------------------
(* The conversion helpers of the scripts, called on their own: team-name    *)
(* canonicalization and the Eastern wall clock of the SportsDataIO feed     *)

\* the spellings a source may use: the 32 full names, the nicknames, a city
\* abbreviation in front of a nickname, bare abbreviations and names no
\* rule knows
TeamSpellings ==
    {"Arizona Cardinals", "Atlanta Falcons", "Baltimore Ravens",
     "Buffalo Bills", "Carolina Panthers", "Chicago Bears",
     "Cincinnati Bengals", "Cleveland Browns", "Dallas Cowboys",
     "Denver Broncos", "Detroit Lions", "Green Bay Packers",
     "Houston Texans", "Indianapolis Colts", "Jacksonville Jaguars",
     "Kansas City Chiefs", "Las Vegas Raiders", "Los Angeles Chargers",
     "Los Angeles Rams", "Miami Dolphins", "Minnesota Vikings",
     "New England Patriots", "New Orleans Saints", "New York Giants",
     "New York Jets", "Philadelphia Eagles", "Pittsburgh Steelers",
     "San Francisco 49ers", "Seattle Seahawks", "Tampa Bay Buccaneers",
     "Tennessee Titans", "Washington Commanders", "Cardinals", "Falcons",
     "Ravens", "Bills", "Panthers", "Bears", "Bengals", "Browns", "Cowboys",
     "Broncos", "Lions", "Packers", "Texans", "Colts", "Jaguars", "Chiefs",
     "Raiders", "Chargers", "Rams", "Dolphins", "Vikings", "Patriots",
     "Saints", "Giants", "Jets", "Eagles", "Steelers", "49ers", "Seahawks",
     "Buccaneers", "Titans", "Commanders", "Niners", "Bucs", "Jags",
     "LA Rams", "LA Chargers", "NY Jets", "NY Giants", "KC Chiefs",
     "NE Patriots", "NO Saints", "SF 49ers", "TB Buccaneers", "TB Bucs",
     "GB Packers", "LV Raiders", "JAX Jaguars", "WAS Commanders",
     "WAS Football Team", "Washington Football Team", "SF", "BUF", "KC",
     "Arizona Wildcats", "Constructor"}

CanonicalFns == {"canonicalTeam", "canonicalSlug", "shiftCanonicalSlug"}

ApplyCanonical(fn, raw) ==
    CASE fn = "canonicalTeam" -> canonicalTeam(raw)
      [] fn = "canonicalSlug" -> canonicalSlug(raw)
      [] OTHER -> shiftCanonicalSlug(raw)

\* canonicalX(raw)
Canonicalize ==
    /\ evaluation.fn = "none" /\ evaluation.kind = "team"
    /\ \E fn \in CanonicalFns :
         evaluation' = [fn |-> fn, kind |-> "team", arg |-> evaluation.arg,
                        result |-> ApplyCanonical(fn, evaluation.arg),
                        again |-> FALSE, twice |-> Null]
    /\ UNCHANGED <<now, games, picks, gotwTable, potwTable, lastSubmit, response,
                   oddsFeed, sdioFeed, runLog, accounts>>

\* canonicalX(canonicalX(raw)): the helper called on its own result
CanonicalizeAgain ==
    /\ evaluation.fn \in CanonicalFns /\ ~evaluation.again
    /\ evaluation' = [evaluation EXCEPT
                        !.again = TRUE,
                        !.twice = Some(ApplyCanonical(evaluation.fn, evaluation.result))]
    /\ UNCHANGED <<now, games, picks, gotwTable, potwTable, lastSubmit, response,
                   oddsFeed, sdioFeed, runLog, accounts>>

\* Date.UTC(year, monthIndex, day, hour, minute), in minutes since
\* 1970-01-01T00:00Z; monthIndex counts from 0
DateUTC(year, monthIndex, day, hour, minute) ==
    LET m == monthIndex + 1
        y == IF m <= 2 THEN year - 1 ELSE year
        era == y \div 400
        yoe == y - era * 400
        doy == (153 * (IF m > 2 THEN m - 3 ELSE m + 9) + 2) \div 5 + day - 1
        doe == yoe * 365 + yoe \div 4 - yoe \div 100 + doy
        days == era * 146097 + doe - 719468
    IN days * 1440 + hour * 60 + minute

\* Date.prototype.getUTCDay: 0 = Sunday
getUTCDay(t) == ((t \div 1440) + 4) % 7

\* Date.prototype.toISOString, as the fields of "YYYY-MM-DDTHH:mm:00.000Z"
toISOString(t) ==
    LET z == (t \div 1440) + 719468
        era == z \div 146097
        doe == z - era * 146097
        yoe == (doe - doe \div 1460 + doe \div 36524 - doe \div 146096) \div 365
        doy == doe - (365 * yoe + yoe \div 4 - yoe \div 100)
        mp == (5 * doy + 2) \div 153
        month == IF mp < 10 THEN mp + 3 ELSE mp - 9
        rest == t % 1440
    IN [year |-> yoe + era * 400 + (IF month <= 2 THEN 1 ELSE 0),
        month |-> month,
        day |-> doy - (153 * mp + 2) \div 5 + 1,
        hour |-> rest \div 60,
        minute |-> rest % 60]

\* isUsDstInEffect(year, month, day): month 1-12, the local date in ET
isUsDstInEffect(year, month, day) ==
    LET marchFirstDow == getUTCDay(DateUTC(year, 2, 1, 0, 0))
        firstSundayInMarch == IF marchFirstDow = 0 THEN 1 ELSE 8 - marchFirstDow
        secondSundayInMarch == firstSundayInMarch + 7
        novFirstDow == getUTCDay(DateUTC(year, 10, 1, 0, 0))
        firstSundayInNov == IF novFirstDow = 0 THEN 1 ELSE 8 - novFirstDow
        mmdd == month * 100 + day
        dstStart == 3 * 100 + secondSundayInMarch
        dstEnd == 11 * 100 + firstSundayInNov
    IN mmdd >= dstStart /\ mmdd < dstEnd

\* easternLocalToUtcIso(localStr) on "YYYY-MM-DDTHH:mm:00"
easternLocalToUtcIso(l) ==
    LET isDst == isUsDstInEffect(l.year, l.month, l.day)
        offsetMinutes == IF isDst THEN 0 - 4 * 60 ELSE 0 - 5 * 60
        utc == DateUTC(l.year, l.month - 1, l.day, l.hour, l.minute) - offsetMinutes
    IN toISOString(utc)

\* getApiKickoffUtc / parseSportsDataUtc(dateTimeUtc, dateTimeEt) of the
\* later syncKickoffsFromSportsdata.js: DateTimeUTC read as UTC when the
\* entry has one, else DateTime read as Eastern time with DST through
\* November 1st
parseSportsDataUtc(dateTimeUtc, dateTimeEt) ==
    IF ~IsNull(dateTimeUtc)
    THEN LET u == Val(dateTimeUtc)
         IN toISOString(DateUTC(u.year, u.month - 1, u.day, u.hour, u.minute))
    ELSE LET base == DateUTC(dateTimeEt.year, dateTimeEt.month - 1, dateTimeEt.day,
                             dateTimeEt.hour, dateTimeEt.minute)
             m == toISOString(base).month
             dNum == toISOString(base).day
             isDst == m < 11 \/ (m = 11 /\ dNum < 2)
             offsetHours == IF isDst THEN 4 ELSE 5
         IN toISOString(base + offsetHours * 60)

\* the wall-clock stamps of the feed: around both DST changes of three
\* seasons, and in mid-season
NaiveTimestamps ==
    {[year |-> y, month |-> m, day |-> d, hour |-> h, minute |-> 0] :
        y \in {2024, 2025, 2026}, m \in {1, 3, 9, 11}, d \in {1, 2, 3, 7, 8, 9, 10},
        h \in {1, 2, 13}}

\* easternLocalToUtcIso(g.DateTime)
EasternLocalToUtcIso ==
    /\ evaluation.fn = "none" /\ evaluation.kind = "time"
    /\ evaluation' = [fn |-> "easternLocalToUtcIso", kind |-> "time",
                      arg |-> evaluation.arg, utcGiven |-> FALSE,
                      result |-> easternLocalToUtcIso(evaluation.arg)]
    /\ UNCHANGED <<now, games, picks, gotwTable, potwTable, lastSubmit, response,
                   oddsFeed, sdioFeed, runLog, accounts>>

\* getApiKickoffUtc(game): with a DateTimeUTC, or with DateTime alone
ParseSportsDataUtc ==
    /\ evaluation.fn = "none" /\ evaluation.kind = "time"
    /\ \E utcGiven \in BOOLEAN :
         evaluation' = [fn |-> "parseSportsDataUtc", kind |-> "time",
                        arg |-> evaluation.arg, utcGiven |-> utcGiven,
                        result |-> parseSportsDataUtc(
                                      IF utcGiven THEN Some(evaluation.arg) ELSE Null,
                                      evaluation.arg)]
    /\ UNCHANGED <<now, games, picks, gotwTable, potwTable, lastSubmit, response,
                   oddsFeed, sdioFeed, runLog, accounts>>

InitConvert ==
    /\ now = At(2, 12, 0)
    /\ games = SeededGames
    /\ picks = {}
    /\ gotwTable = {}
    /\ potwTable = {}
    /\ lastSubmit = {}
    /\ response = NoResponse
    /\ oddsFeed = NoFeed
    /\ sdioFeed = NoFeed
    /\ runLog = NoRun
    /\ \/ \E x \in TeamSpellings : evaluation = [fn |-> "none", kind |-> "team", arg |-> x]
       \/ \E l \in NaiveTimestamps : evaluation = [fn |-> "none", kind |-> "time", arg |-> l]
    /\ NoAccountActivity

NextConvert == Canonicalize \/ CanonicalizeAgain \/ EasternLocalToUtcIso \/ ParseSportsDataUtc

SpecConvert == InitConvert /\ [][NextConvert]_vars

----------------------------------------------------------------------------
(* The admin routes that set the Game of the Week (admin.js)               *)

\* INSERT INTO game_of_the_week ... ON CONFLICT (week) DO UPDATE
UpsertGotw(week, home_team, away_team, total) ==
    {r \in gotwTable : r.week # week} \cup
    {[week |-> week, home_team |-> home_team, away_team |-> away_team,
      game_total_points |-> total]}

\* the bodies an admin client sends: the matchups of the stored games, the
\* return fixture, a team of no game, a missing home team; the total
\* absent, null or entered
GotwBodies ==
    {[home_team |-> m[1], away_team |-> m[2], game_total_points |-> t] :
        m \in {<<Chiefs, Raiders>>, <<Bills, Dolphins>>, <<Dolphins, Bills>>,
               <<Wildcats, Bills>>, <<NoTeam, Bills>>},
        t \in {JUndefined, JNull, JNum(45)}}

\* PUT /admin/week/:week/gotw, past authenticateToken and ensureAdmin
PutWeekGotw ==
    /\ response = NoResponse
    /\ \E week \in Weeks \cup {0}, body \in GotwBodies :
         LET match == {id \in DOMAIN games : /\ games[id].week = week
                                             /\ games[id].home_team = body.home_team
                                             /\ games[id].away_team = body.away_team}
             total == IF body.game_total_points.kind = "num"
                      THEN Some(body.game_total_points.n) ELSE Null
         IN IF week < 1 \/ body.home_team = NoTeam \/ body.away_team = NoTeam \/ match = {}
            THEN /\ response' = [handler |-> "putWeekGotw", status |-> 400, week |-> week,
                                 body |-> body]
                 /\ UNCHANGED gotwTable
            ELSE /\ gotwTable' = UpsertGotw(week, body.home_team, body.away_team, total)
                 /\ response' = [handler |-> "putWeekGotw", status |-> 200, week |-> week,
                                 body |-> body]
    /\ UNCHANGED <<now, games, picks, potwTable, lastSubmit, oddsFeed, sdioFeed, runLog,
                   evaluation, accounts>>

\* POST /admin/game-of-the-week, the legacy route: no middleware, the week in
\* the body
PostGameOfTheWeek ==
    /\ response = NoResponse
    /\ \E week \in Weeks \cup {0}, body \in GotwBodies :
         IF \/ week = 0 \/ body.home_team = NoTeam \/ body.away_team = NoTeam
            \/ body.game_total_points.kind = "undefined"
         THEN /\ response' = [handler |-> "postGameOfTheWeek", status |-> 400,
                              week |-> week, body |-> body]
              /\ UNCHANGED gotwTable
         ELSE /\ gotwTable' = UpsertGotw(week, body.home_team, body.away_team,
                                         IF body.game_total_points.kind = "num"
                                         THEN Some(body.game_total_points.n) ELSE Null)
              /\ response' = [handler |-> "postGameOfTheWeek", status |-> 201,
                              week |-> week, body |-> body]
    /\ UNCHANGED <<now, games, picks, potwTable, lastSubmit, oddsFeed, sdioFeed, runLog,
                   evaluation, accounts>>

NextAdmin == PutWeekGotw \/ PostGameOfTheWeek \/ ResponseSent

SpecAdmin == Init /\ [][NextAdmin]_vars

----------------------------------------------------------------------------
(* Sign-up and login (routes/auth.js)                                      *)

\* raw.trim().toLowerCase() for the addresses of the model
normalizeEmail(raw) ==
    LET table == ("Bobby@NFL.test " :> "bobby@nfl.test") @@
                 (" New@nfl.test" :> "new@nfl.test") @@
                 ("   " :> "")
    IN IF raw \in DOMAIN table THEN table[raw] ELSE raw

\* SELECT ... FROM users WHERE LOWER(email)=LOWER($1) LIMIT 1: the ids found
UsersByEmail(email) == {id \in DOMAIN users : users[id].email = email}

\* the flags the login gate reads, derived from whichever columns exist
shapeUser(u) ==
    LET approved == IF ~IsNull(u.approved) THEN Val(u.approved)
                    ELSE IF ~IsNull(u.pending_approval) THEN ~Val(u.pending_approval)
                    ELSE TRUE
        deactivated == IF ~IsNull(u.deactivated) THEN Val(u.deactivated)
                       ELSE IF ~IsNull(u.is_active) THEN ~Val(u.is_active)
                       ELSE FALSE
    IN [id |-> u.id, email |-> u.email, is_admin |-> u.is_admin,
        approved |-> approved, deactivated |-> deactivated,
        pending_approval |-> IF ~IsNull(u.pending_approval) THEN Val(u.pending_approval)
                             ELSE ~approved,
        is_active |-> IF ~IsNull(u.is_active) THEN Val(u.is_active)
                      ELSE approved /\ ~deactivated]

\* the accounts of one behaviour
MaxUsers == 4

\* nextval of the id sequence: one more than the ids given so far
NewUserId == 1 + CHOOSE n \in DOMAIN users : \A m \in DOMAIN users : m <= n

SignupBodies ==
    {[email |-> e, password |-> p, first_name |-> f] :
        e \in {" New@nfl.test", "bobby@nfl.test", "   "},
        p \in {"pw-newcomer", "short"}, f \in {"New", ""}}

\* POST /auth/signup and /auth/register.  The INSERT names (approved,
\* deactivated) and falls back to an INSERT without them when the table has
\* no such columns; pending_approval and is_active take their DEFAULT true.
handleSignup(body) ==
    LET email == normalizeEmail(body.email)
    IN IF email = "" \/ body.password = "" \/ body.first_name = ""
       THEN /\ response' = [handler |-> "signup", status |-> 400]
            /\ UNCHANGED users
       ELSE IF Len(body.password) < 8
       THEN /\ response' = [handler |-> "signup", status |-> 400]
            /\ UNCHANGED users
       ELSE IF UsersByEmail(email) # {}
       THEN /\ response' = [handler |-> "signup", status |-> 409]
            /\ UNCHANGED users
       ELSE /\ users' = users @@
                (NewUserId :>
                   [id |-> NewUserId, email |-> email, password |-> body.password,
                    is_admin |-> FALSE,
                    approved |-> IF HasApproved(schema) THEN Some(FALSE) ELSE Null,
                    deactivated |-> IF HasApproved(schema) THEN Some(FALSE) ELSE Null,
                    pending_approval |-> IF HasPending(schema) THEN Some(TRUE) ELSE Null,
                    is_active |-> IF HasPending(schema) THEN Some(TRUE) ELSE Null])
            /\ response' = [handler |-> "signup", status |-> 201]

Signup ==
    /\ response = NoResponse
    /\ Cardinality(DOMAIN users) < MaxUsers
    /\ \E body \in SignupBodies : handleSignup(body)
    /\ UNCHANGED <<now, games, picks, gotwTable, potwTable, lastSubmit, oddsFeed,
                   sdioFeed, runLog, evaluation, schema, resetTokens, inflight>>

LoginBodies ==
    {[email |-> e, password |-> p] :
        e \in {"Bobby@NFL.test ", "alice@nfl.test", "new@nfl.test", "nobody@nfl.test", ""},
        p \in {"pw-bobby", "pw-alice", "pw-newcomer", ""}}

\* POST /auth/login; bcrypt.compare is the equality of the password with
\* the one the stored hash was made from.
Login ==
    /\ response = NoResponse
    /\ \E body \in LoginBodies :
         LET email == normalizeEmail(body.email)
             found == UsersByEmail(email)
             rawUser == users[CHOOSE id \in found : TRUE]
             u == shapeUser(rawUser)
             reply(status, code, token) ==
                 [handler |-> "login", status |-> status, code |-> code,
                  token |-> token, email |-> email]
         IN response' =
              IF email = "" \/ body.password = "" THEN reply(400, "", Null)
              ELSE IF found = {} THEN reply(401, "", Null)
              ELSE IF body.password # rawUser.password THEN reply(401, "", Null)
              ELSE IF ~u.is_active \/ u.deactivated THEN reply(403, "INACTIVE", Null)
              ELSE IF u.pending_approval /\ ~u.is_admin
                   THEN reply(403, "PENDING_APPROVAL", Null)
              ELSE reply(200, "", Some(u.id))
    /\ UNCHANGED <<now, games, picks, gotwTable, potwTable, lastSubmit, oddsFeed,
                   sdioFeed, runLog, evaluation, accounts>>

\* every shape of a stored row: each status column the table has holds
\* either value, whatever the others hold
UserShapes(sch) ==
    {[id |-> 3, email |-> "bobby@nfl.test", password |-> "pw-bobby", is_admin |-> adm,
      approved |-> a, deactivated |-> d, pending_approval |-> p, is_active |-> act] :
        adm \in BOOLEAN,
        a \in IF HasApproved(sch) THEN {Some(TRUE), Some(FALSE)} ELSE {Null},
        d \in IF HasApproved(sch) THEN {Some(TRUE), Some(FALSE)} ELSE {Null},
        p \in IF HasPending(sch) THEN {Some(TRUE), Some(FALSE)} ELSE {Null},
        act \in IF HasPending(sch) THEN {Some(TRUE), Some(FALSE)} ELSE {Null}}

InitLogin ==
    /\ now = At(2, 12, 0)
    /\ games = SeededGames
    /\ picks = {}
    /\ gotwTable = {}
    /\ potwTable = {}
    /\ lastSubmit = {}
    /\ response = NoResponse
    /\ oddsFeed = NoFeed
    /\ sdioFeed = NoFeed
    /\ runLog = NoRun
    /\ evaluation = NoEvaluation
    /\ schema \in Schemas
    /\ \E row \in UserShapes(schema) :
         users = [SeededUsers(schema) EXCEPT ![3] = row]
    /\ resetTokens = << >>
    /\ inflight = {}

NextLogin == Signup \/ Login \/ ResponseSent

SpecLogin == InitLogin /\ [][NextLogin]_vars

----------------------------------------------------------------------------
(* Admin user management (routes/adminUsers.js).  Every statement of a     *)
(* handler is its own autocommitted query: a handler that reads and then   *)
(* writes is two steps, and `inflight` holds the requests whose checks     *)
(* have passed and whose write has not been issued yet.  The routes name   *)
(* the columns pending_approval and is_active; on a table without them the *)
(* statements fail and the handler answers 500 with nothing written.       *)

\* the requests under way at one time
MaxInflight == 2

\* SELECT COUNT(*) FROM users WHERE is_admin = true AND is_active = true
countActiveAdmins ==
    Cardinality({id \in DOMAIN users :
                    users[id].is_admin /\ users[id].is_active = Some(TRUE)})

\* authenticateToken, ensureAdmin and the id checks shared by the routes:
\* the status that ends the request before its handler's own rules, 0 if none
ensureAdmin(actingId, id) ==
    IF actingId \notin DOMAIN users \/ ~users[actingId].is_admin THEN 403
    ELSE IF id \notin DOMAIN users THEN 404
    ELSE 0

\* the bearers of a token, and the :id of the requests
ActingIds == {1, 2, 3}
TargetIds == {1, 2, 4}

AdminReply(route, status) == [handler |-> route, status |-> status]

\* PUT /:id/approve and PUT /:id/activate run the same UPDATE
ApproveOrActivateUser ==
    /\ response = NoResponse /\ HasPending(schema)
    /\ \E actingId \in ActingIds, id \in TargetIds, route \in {"approve", "activate"} :
         LET early == ensureAdmin(actingId, id)
         IN IF early # 0
            THEN /\ response' = AdminReply(route, early)
                 /\ UNCHANGED users
            ELSE /\ users' = [users EXCEPT ![id].pending_approval = Some(FALSE),
                                           ![id].is_active = Some(TRUE)]
                 /\ response' = AdminReply(route, 200)
    /\ UNCHANGED <<now, games, picks, gotwTable, potwTable, lastSubmit, oddsFeed,
                   sdioFeed, runLog, evaluation, schema, resetTokens, inflight>>

\* PUT /:id/decline
DeclineUser ==
    /\ response = NoResponse /\ HasPending(schema)
    /\ \E actingId \in ActingIds, id \in TargetIds :
         LET early == ensureAdmin(actingId, id)
         IN IF early # 0
            THEN /\ response' = AdminReply("decline", early)
                 /\ UNCHANGED users
            ELSE /\ users' = [users EXCEPT ![id].pending_approval = Some(FALSE),
                                           ![id].is_active = Some(FALSE)]
                 /\ response' = AdminReply("decline", 200)
    /\ UNCHANGED <<now, games, picks, gotwTable, potwTable, lastSubmit, oddsFeed,
                   sdioFeed, runLog, evaluation, schema, resetTokens, inflight>>

\* the reads of a guarded route: answer early, or leave the write under way
AdminChecks(route, actingId, id, refused, write) ==
    LET early == ensureAdmin(actingId, id)
    IN /\ Cardinality(inflight) < MaxInflight
       /\ IF early # 0
          THEN response' = AdminReply(route, early) /\ UNCHANGED inflight
          ELSE IF refused
          THEN response' = AdminReply(route, 400) /\ UNCHANGED inflight
          ELSE inflight' = inflight \cup {write} /\ UNCHANGED response
       /\ UNCHANGED <<now, games, picks, gotwTable, potwTable, lastSubmit, oddsFeed,
                      sdioFeed, runLog, evaluation, users, schema, resetTokens>>

\* PUT /:id/deactivate, up to its UPDATE
DeactivateUser ==
    /\ response = NoResponse /\ HasPending(schema)
    /\ \E actingId \in ActingIds, targetId \in TargetIds :
          AdminChecks("deactivate", actingId, targetId,
                      users[targetId].is_admin /\ countActiveAdmins <= 1,
                      [op |-> "deactivate", id |-> targetId, is_admin |-> FALSE])

\* PUT /:id/admin-role, up to its UPDATE
PutAdminRole ==
    /\ response = NoResponse /\ HasPending(schema)
    /\ \E actingId \in ActingIds, targetId \in TargetIds, is_admin \in BOOLEAN :
          AdminChecks("admin-role", actingId, targetId,
                      users[targetId].is_admin /\ ~is_admin /\ countActiveAdmins <= 1,
                      [op |-> "admin-role", id |-> targetId, is_admin |-> is_admin])

\* DELETE /:id, up to its DELETE
DeleteUser ==
    /\ response = NoResponse /\ HasPending(schema)
    /\ \E actingId \in ActingIds, targetId \in TargetIds :
          AdminChecks("delete", actingId, targetId,
                      /\ users[targetId].is_admin
                      /\ users[targetId].is_active = Some(TRUE)
                      /\ countActiveAdmins <= 1,
                      [op |-> "delete", id |-> targetId, is_admin |-> FALSE])

\* the UPDATE or DELETE of a request whose checks have passed.  A row that
\* is gone by then makes shapeUser(upd.rows[0]) throw: 500.
AdminUsersWrite ==
    /\ response = NoResponse
    /\ \E w \in {x \in inflight : x.op \in {"deactivate", "admin-role", "delete"}} :
         /\ inflight' = inflight \ {w}
         /\ IF w.id \notin DOMAIN users
            THEN /\ UNCHANGED users
                 /\ response' = AdminReply(w.op, IF w.op = "delete" THEN 200 ELSE 500)
            ELSE /\ users' =
                      IF w.op = "deactivate"
                      THEN [users EXCEPT ![w.id].is_active = Some(FALSE)]
                      ELSE IF w.op = "admin-role"
                      THEN [users EXCEPT ![w.id].is_admin = w.is_admin]
                      ELSE [id \in DOMAIN users \ {w.id} |-> users[id]]
                 /\ response' = AdminReply(w.op, 200)
    /\ UNCHANGED <<now, games, picks, gotwTable, potwTable, lastSubmit, oddsFeed,
                   sdioFeed, runLog, evaluation, schema, resetTokens>>

NextUsers ==
    \/ ApproveOrActivateUser \/ DeclineUser \/ DeactivateUser \/ PutAdminRole
    \/ DeleteUser \/ AdminUsersWrite \/ ResponseSent

SpecUsers == Init /\ [][NextUsers]_vars

----------------------------------------------------------------------------
(* Score ingestion (routes/adminScores.js, services/sportsdataProvider.js, *)
(* services/score.Ingestor.js)                                             *)

\* Number.isFinite(Number(v)) ? Number(v) : null.  Number(null) is 0,
\* Number(undefined) is NaN.
FiniteScore(v) == IF v.kind = "undefined" THEN Null ELSE Some(Number(v))

\* TEAM_FULL of adminScores.js; TEAM_MAP of sportsdataProvider.js is the
\* same table
TEAM_FULL ==
    ("ARI" :> "Arizona Cardinals") @@ ("ATL" :> "Atlanta Falcons") @@
    ("BAL" :> "Baltimore Ravens") @@ ("BUF" :> "Buffalo Bills") @@
    ("CAR" :> "Carolina Panthers") @@ ("CHI" :> "Chicago Bears") @@
    ("CIN" :> "Cincinnati Bengals") @@ ("CLE" :> "Cleveland Browns") @@
    ("DAL" :> "Dallas Cowboys") @@ ("DEN" :> "Denver Broncos") @@
    ("DET" :> "Detroit Lions") @@ ("GB" :> "Green Bay Packers") @@
    ("HOU" :> "Houston Texans") @@ ("IND" :> "Indianapolis Colts") @@
    ("JAX" :> "Jacksonville Jaguars") @@ ("KC" :> "Kansas City Chiefs") @@
    ("LAC" :> "Los Angeles Chargers") @@ ("LAR" :> "Los Angeles Rams") @@
    ("LV" :> "Las Vegas Raiders") @@ ("MIA" :> "Miami Dolphins") @@
    ("MIN" :> "Minnesota Vikings") @@ ("NE" :> "New England Patriots") @@
    ("NO" :> "New Orleans Saints") @@ ("NYG" :> "New York Giants") @@
    ("NYJ" :> "New York Jets") @@ ("PHI" :> "Philadelphia Eagles") @@
    ("PIT" :> "Pittsburgh Steelers") @@ ("SEA" :> "Seattle Seahawks") @@
    ("SF" :> "San Francisco 49ers") @@ ("TB" :> "Tampa Bay Buccaneers") @@
    ("TEN" :> "Tennessee Titans") @@ ("WAS" :> "Washington Commanders")

\* an item of ScoresByWeek
ScoreEvent(home, away, hs, as) ==
    [HomeTeam |-> home, AwayTeam |-> away, HomeScore |-> hs, AwayScore |-> as]

\* what the provider answers for a week: the Sunday game not played yet
\* (null scores, or no score fields), final, or half reported; a team code
\* the table does not have; or no answer
ScoreFeeds ==
    {FailedFeed, [ok |-> TRUE, events |-> <<ScoreEvent("XYZ", "MIA", JNum(3), JNum(0))>>]}
    \cup {[ok |-> TRUE, events |-> <<ScoreEvent("BUF", "MIA", r[1], r[2])>>] :
            r \in {<<JNull, JNull>>, <<JUndefined, JUndefined>>,
                   <<JNum(31), JNum(10)>>, <<JNum(31), JNull>>}}

RECURSIVE UpdateScores(_, _)
\* for each write in turn: UPDATE games SET home_score = $1, away_score = $2,
\*   kickoff = COALESCE(kickoff, $3) WHERE week = $4 AND home_team = $5 AND
\*   away_team = $6
UpdateScores(gs, writes) ==
    IF writes = <<>> THEN gs
    ELSE LET w == Head(writes)
         IN UpdateScores(
              [id \in DOMAIN gs |->
                 IF gs[id].week = w.week /\ gs[id].home_team = w.home_team
                    /\ gs[id].away_team = w.away_team
                 THEN [gs[id] EXCEPT !.home_score = w.home_score,
                                     !.away_score = w.away_score,
                                     !.kickoff = IF IsNull(@) THEN w.kickoff ELSE @]
                 ELSE gs[id]],
              Tail(writes))

\* POST /admin/scores/fetch-now of adminScores.js: the loop over the
\* provider's items, as the list of its UPDATEs (which leave kickoff alone)
fetchNowWrites(week, data) ==
    LET row(g) == [week |-> week,
                   home_team |-> IF g.HomeTeam \in DOMAIN TEAM_FULL
                                 THEN TEAM_FULL[g.HomeTeam] ELSE NoTeam,
                   away_team |-> IF g.AwayTeam \in DOMAIN TEAM_FULL
                                 THEN TEAM_FULL[g.AwayTeam] ELSE NoTeam,
                   home_score |-> FiniteScore(g.HomeScore),
                   away_score |-> FiniteScore(g.AwayScore),
                   kickoff |-> Null]
        rows == [i \in 1..Len(data) |-> row(data[i])]
    IN SelectSeq(rows, LAMBDA r : /\ ~IsNull(r.home_score) /\ ~IsNull(r.away_score)
                                  /\ r.home_team # NoTeam /\ r.away_team # NoTeam)

FetchNow ==
    /\ response = NoResponse
    /\ \E week \in Weeks \cup {0}, feed \in ScoreFeeds :
         IF week < 1 \/ week > 18
         THEN /\ response' = [handler |-> "fetchNow", status |-> 400]
              /\ UNCHANGED games
         ELSE IF ~feed.ok
         THEN /\ response' = [handler |-> "fetchNow", status |-> 500]
              /\ UNCHANGED games
         ELSE /\ games' = UpdateScores(games, fetchNowWrites(week, feed.events))
              /\ response' = [handler |-> "fetchNow", status |-> 200, week |-> week,
                              data |-> feed.events]
    /\ UNCHANGED <<now, picks, gotwTable, potwTable, lastSubmit, oddsFeed, sdioFeed,
                   runLog, evaluation, accounts>>

\* fetchWeekScores of sportsdataProvider.js: every item, normalized.  The
\* items of the model carry no Week, team-name or Date field.
fetchWeekScores(week, data) ==
    [i \in 1..Len(data) |->
       LET g == data[i]
       IN [week |-> week,
           home_team |-> IF g.HomeTeam \in DOMAIN TEAM_FULL
                         THEN TEAM_FULL[g.HomeTeam] ELSE g.HomeTeam,
           away_team |-> IF g.AwayTeam \in DOMAIN TEAM_FULL
                         THEN TEAM_FULL[g.AwayTeam] ELSE g.AwayTeam,
           home_score |-> FiniteScore(g.HomeScore),
           away_score |-> FiniteScore(g.AwayScore),
           kickoff |-> Null]]

\* POST /admin/scores/fetch-now of routes/scores.js, which calls
\* fetchAndIngest of score.Ingestor.js with the week of the body
FetchAndIngest ==
    /\ response = NoResponse
    /\ \E week \in Weeks, feed \in ScoreFeeds :
         IF ~feed.ok
         THEN /\ response' = [handler |-> "fetchAndIngest", status |-> 500]
              /\ UNCHANGED games
         ELSE /\ games' = UpdateScores(games, fetchWeekScores(week, feed.events))
              /\ response' = [handler |-> "fetchAndIngest", status |-> 200,
                              week |-> week, data |-> feed.events]
    /\ UNCHANGED <<now, picks, gotwTable, potwTable, lastSubmit, oddsFeed, sdioFeed,
                   runLog, evaluation, accounts>>

----------------------------------------------------------------------------
(* The season specification: the clock passes the week-12 Sunday kickoff   *)
(* and the public unlock while picks are read, scores are ingested and     *)
(* kickoffs are resynced.                                                  *)

InitSeason ==
    /\ now \in {At(2, 12, 0), At(3, 17, 30), At(3, 18, 0)}
    /\ \E outcome \in {<<Null, Null>>, <<Some(27), Some(20)>>} :
         games = [SeededGames EXCEPT ![2] = WithResult(@, outcome, Bills)]
    /\ picks = {PickRow(1, 12, Bills, Some(112), Some(45), At(2, 9, 0)),
                PickRow(2, 12, Dolphins, Null, Null, At(2, 10, 0))}
    /\ gotwTable = {}
    /\ potwTable = {}
    /\ lastSubmit = {}
    /\ response = NoResponse
    /\ oddsFeed \in {NoFeed,
                     [ok |-> TRUE, events |-> <<OddsEvent(Dolphins, Bills, At(10, 18, 0))>>]}
    /\ sdioFeed = [ok |-> TRUE,
                   events |-> <<SdioEvent(12, Chiefs, Raiders, At(1, 1, 15)),
                                SdioEvent(12, Bills, Dolphins, At(3, 17, 0)),
                                SdioEvent(13, Dolphins, Bills, At(10, 18, 0))>>]
    /\ runLog = NoRun
    /\ evaluation = NoEvaluation
    /\ NoAccountActivity

NextSeason == Tick \/ PublicPicks \/ ResyncKickoffs \/ ResponseSent

SpecSeason == InitSeason /\ [][NextSeason]_vars

NextIngest == Tick \/ FetchNow \/ FetchAndIngest \/ ResponseSent

SpecIngest == InitSeason /\ [][NextIngest]_vars

----------------------------------------------------------------------------
(* Password reset (routes/auth.js, routes/passwordReset.js, index.js)      *)
(* A token is the index of its row in password_resets; token 0 is the      *)
(* empty string.                                                           *)

MaxResets == 2
RESET_EXPIRES_HOURS == 2

\* { ok: true, message: 'If that email exists, a reset link has been created.' }
GenericPayload == [ok |-> TRUE, message |-> "If that email exists", dev_reset_url |-> Null]

\* sendPasswordResetEmail of services/email.js: what send returns (a mode,
\* never `simulated`), with reset_url in the later version of the service
sendPasswordResetEmail(token, withUrl) ==
    [mode |-> "console", simulated |-> FALSE,
     reset_url |-> IF withUrl THEN Some(token) ELSE Null]

\* POST /request-reset of routes/auth.js: the answer.  found: the user
\* exists; failed: the INSERT or the mail threw.
authRequestReset(email, found, failed, token, withUrl) ==
    IF email = "" \/ ~found \/ failed THEN [status |-> 200, body |-> GenericPayload]
    ELSE LET result == sendPasswordResetEmail(token, withUrl)
         IN [status |-> 200,
             body |-> IF result.simulated /\ ~IsNull(result.reset_url)
                      THEN [GenericPayload EXCEPT !.dev_reset_url = result.reset_url]
                      ELSE GenericPayload]

\* POST /request-reset of routes/passwordReset.js: the answer
passwordResetRequestReset(email, found, failed, token, withUrl) ==
    IF email = "" \/ ~found THEN [status |-> 200, body |-> GenericPayload]
    ELSE IF failed THEN [status |-> 500, body |-> [error |-> "Failed to create reset link"]]
    ELSE [status |-> 200, body |-> [GenericPayload EXCEPT !.dev_reset_url = Some(token)]]

\* the mounts in the other order: routes/passwordReset.js answers
requestResetReply_PasswordResetFirst(email, found, failed, token, withUrl) ==
    passwordResetRequestReset(email, found, failed, token, withUrl)

\* app.use("/auth", authRoutes) comes before app.use("/auth",
\* passwordResetRoutes), and the handler of auth.js always answers: it
\* serves POST /auth/request-reset
requestResetReply(email, found, failed, token, withUrl) ==
    authRequestReset(email, found, failed, token, withUrl)

ResetEmails == {"", "bob@nfl.test", "Bobby@NFL.test ", "nobody@nfl.test"}

\* POST /auth/request-reset
RequestReset ==
    /\ response = NoResponse
    /\ Len(resetTokens) < MaxResets
    /\ \E raw \in ResetEmails, failed \in BOOLEAN, withUrl \in BOOLEAN :
         LET email == normalizeEmail(raw)
             found == UsersByEmail(email) # {}
             token == Len(resetTokens) + 1
             reply == requestResetReply(email, found, failed, token, withUrl)
         IN /\ response' = [handler |-> "request-reset", email |-> email,
                            status |-> reply.status, body |-> reply.body]
            /\ resetTokens' =
                 IF email # "" /\ found /\ ~failed
                 THEN Append(resetTokens,
                             [user_id |-> CHOOSE id \in UsersByEmail(email) : TRUE,
                              expires_at |-> now + RESET_EXPIRES_HOURS * MsPerHour,
                              used |-> FALSE])
                 ELSE resetTokens
    /\ UNCHANGED <<now, games, picks, gotwTable, potwTable, lastSubmit, oddsFeed,
                   sdioFeed, runLog, evaluation, users, schema, inflight>>

\* SELECT ... FROM password_resets WHERE token = $1 AND used = false AND
\*   expires_at > NOW()
ValidResetRows(token) ==
    {t \in DOMAIN resetTokens : /\ t = token /\ ~resetTokens[t].used
                                /\ resetTokens[t].expires_at > now}

TokenInputs == 0..(MaxResets + 1)

\* GET /auth/validate-reset
ValidateReset ==
    /\ response = NoResponse
    /\ \E token \in TokenInputs :
         response' = [handler |-> "validate-reset", token |-> token,
                      status |-> IF token = 0 \/ ValidResetRows(token) = {}
                                 THEN 400 ELSE 200]
    /\ UNCHANGED <<now, games, picks, gotwTable, potwTable, lastSubmit, oddsFeed,
                   sdioFeed, runLog, evaluation, accounts>>

NewPasswords == {"", "short", "new-pass-1", "new-pass-2"}

\* POST /auth/perform-reset, up to `await bcrypt.hash`: the body is
\* validated and the reset row is selected
PerformReset ==
    /\ response = NoResponse
    /\ Cardinality(inflight) < MaxInflight
    /\ \E token \in TokenInputs, newPassword \in NewPasswords :
         IF token = 0 \/ newPassword = "" \/ Len(newPassword) < 8
            \/ ValidResetRows(token) = {}
         THEN /\ response' = [handler |-> "perform-reset", token |-> token, status |-> 400]
              /\ UNCHANGED inflight
         ELSE /\ inflight' = inflight \cup
                   {[op |-> "perform-reset", id |-> token,
                     user_id |-> resetTokens[token].user_id, password |-> newPassword]}
              /\ UNCHANGED response
    /\ UNCHANGED <<now, games, picks, gotwTable, potwTable, lastSubmit, oddsFeed,
                   sdioFeed, runLog, evaluation, users, schema, resetTokens>>

\* POST /auth/perform-reset, from its first UPDATE: the password is set,
\* the token is marked used, the user's other tokens are retired
PerformResetWrite ==
    /\ response = NoResponse
    /\ \E w \in inflight :
         /\ w.op = "perform-reset"
         /\ inflight' = inflight \ {w}
         /\ users' = IF w.user_id \in DOMAIN users
                     THEN [users EXCEPT ![w.user_id].password = w.password]
                     ELSE users
         /\ resetTokens' = [t \in DOMAIN resetTokens |->
                              IF t = w.id \/ resetTokens[t].user_id = w.user_id
                              THEN [resetTokens[t] EXCEPT !.used = TRUE]
                              ELSE resetTokens[t]]
         /\ response' = [handler |-> "perform-reset", token |-> w.id, status |-> 200]
    /\ UNCHANGED <<now, games, picks, gotwTable, potwTable, lastSubmit, oddsFeed,
                   sdioFeed, runLog, evaluation, schema>>

NextReset ==
    \/ RequestReset \/ ValidateReset \/ PerformReset \/ PerformResetWrite
    \/ Tick \/ ResponseSent

SpecReset == Init /\ [][NextReset]_vars

----------------------------------------------------------------------------
(* Properties of the pick store and of the scoring engine                  *)

PickOf(u, w) == CHOOSE p \in PicksOfWeek(w) : p.user_id = u

\* the strictly better GOTW predictions of week w: a smaller difference to
\* the actual total, or the same difference and a smaller POTW difference
StrictlyCloser(w, p) ==
    LET actual == GotwActualTotal(w)
        yards == PotwYards(w)
    IN {q \in PicksOfWeek(w) :
          /\ HasGotwPrediction(q)
          /\ \/ GotwDiff(q, actual) < GotwDiff(p, actual)
             \/ /\ GotwDiff(q, actual) = GotwDiff(p, actual)
                /\ PotwDiff(q, yards) < PotwDiff(p, yards)}

CompetitionRank(w, p) == 1 + Cardinality(StrictlyCloser(w, p))

RankAward(rank) == IF rank = 1 THEN 3 ELSE IF rank = 2 THEN 2 ELSE IF rank = 3 THEN 1 ELSE 0

\* C1: in the weekly leaderboard, once the GOTW actual total is known, every
\* participant with a prediction earns the award of their competition rank
\* by (GOTW difference, POTW difference): equal scores share rank and award,
\* ranks 1/2/3 earn 3/2/1, anything else 0.
C1_CompetitionRanking ==
    (response.handler = "leaderboardWeek" /\ ~IsNull(response.table.gotw_actual)) =>
        \A i \in 1..Len(response.table.rows) :
            LET row == response.table.rows[i]
                p == PickOf(row.user_id, response.week)
            IN row.gotw_points =
                 row.factor * (IF HasGotwPrediction(p)
                               THEN RankAward(CompetitionRank(response.week, p))
                               ELSE 0)

\* C2: a step taken while a week is locked leaves that week's stored picks
\* exactly as they were.
C2_LockedPicksImmutable ==
    [][\A w \in Weeks : IsLocked(w) => PicksOfWeek(w)' = PicksOfWeek(w)]_vars

\* the value a submitted prediction stands for: its number, or none
SubmittedValue(v) == IF v.kind = "num" THEN Some(v.n) ELSE Null

\* C3: the picks table holds at most one row per (user, week), and the row
\* carries the team and the predictions of the latest submission for it.
C3_UpsertLastSubmission ==
    /\ \A p, q \in picks : (p.user_id = q.user_id /\ p.week = q.week) => p = q
    /\ \A s \in lastSubmit :
         \E p \in picks :
            /\ p.user_id = s.user_id /\ p.week = s.week
            /\ p.team = s.team
            /\ p.gotw_prediction = SubmittedValue(s.gotw_prediction)
            /\ p.potw_prediction = SubmittedValue(s.potw_prediction)

\* C4: every stored pick names the home or the away team of a game of its
\* week.
C4_PickTeamPlaysInWeek ==
    \A p \in picks : gameForTeam(p.week, p.team) # {}

\* the base points of a pick on game g, undoubled
ClaimedBasePoints(g, team) ==
    IF /\ ~IsNull(g.home_score) /\ ~IsNull(g.away_score)
       /\ Val(g.home_score) # Val(g.away_score)
       /\ team = (IF Val(g.home_score) > Val(g.away_score) THEN g.home_team ELSE g.away_team)
    THEN (IF team = g.favorite THEN 1 ELSE 2)
    ELSE 0

\* C5: a pick on a game of its week scores, before the week's factor, 1 when
\* its team won as the stored favorite, 2 when it won otherwise, 0 when it
\* lost, the game was tied or a score is missing; in the weekly leaderboard
\* and in the public picks view.
C5_BasePoints ==
    /\ response.handler = "leaderboardWeek" =>
         \A i \in 1..Len(response.table.rows) :
            LET row == response.table.rows[i]
                p == PickOf(row.user_id, response.week)
            IN \A id \in gameForTeam(response.week, p.team) :
                 row.base_points = ClaimedBasePoints(games[id], p.team)
                                     * (IF response.week \in DOUBLE_WEEKS THEN 2 ELSE 1)
    /\ response.handler = "publicPicks" =>
         \A i \in 1..Len(response.picks) :
            \A id \in gameForTeam(response.week, response.picks[i].team) :
               response.picks[i].base_points =
                   ClaimedBasePoints(games[id], response.picks[i].team)

\* a favorite's win, a loss and both scores present, in one weekly table
C5_Witness ==
    /\ response.handler = "leaderboardWeek"
    /\ \E i, j \in 1..Len(response.table.rows) :
         LET a == PickOf(response.table.rows[i].user_id, response.week)
             b == PickOf(response.table.rows[j].user_id, response.week)
         IN /\ response.table.rows[i].base_points = response.table.rows[i].factor
            /\ response.table.rows[j].base_points = 0
            /\ gameForTeam(response.week, a.team) # {}
            /\ gameForTeam(response.week, a.team) = gameForTeam(response.week, b.team)
            /\ a.team # b.team

\* the double-week sets a deployment may configure
DoubleWeekConfigs == {DOUBLE_WEEKS, {12}, {}}

\* row of table `doubled` against the row of the same user in `plain`
TotalsMultiplied(doubledRows, plainRows, by) ==
    /\ Len(doubledRows) = Len(plainRows)
    /\ \A i \in 1..Len(doubledRows) :
         \E j \in 1..Len(plainRows) :
            /\ plainRows[j].user_id = doubledRows[i].user_id
            /\ plainRows[j].total_points =
                 plainRows[j].base_points + plainRows[j].gotw_points
                   + plainRows[j].potw_points
            /\ doubledRows[i].total_points = by * plainRows[j].total_points

ClaimedGotwActual(w) ==
    LET rows == {r \in gotwTable : r.week = w}
    IN IF rows = {} THEN Null
       ELSE LET r == CHOOSE x \in rows : TRUE
                featured == {id \in GamesOfWeek(w) : /\ games[id].home_team = r.home_team
                                                     /\ games[id].away_team = r.away_team}
            IN IF ~IsNull(r.game_total_points) THEN r.game_total_points
               ELSE IF \E id \in featured : ScoresKnown(games[id])
               THEN LET g == games[CHOOSE id \in featured : ScoresKnown(games[id])]
                    IN Some(Val(g.home_score) + Val(g.away_score))
               ELSE Null

\* C7: the weekly leaderboard and the public picks view both rank against
\* the entered GOTW total when there is one, else against the sum of the
\* featured game's final scores, and award no GOTW points while neither is
\* known.
C7_GotwActualTotal ==
    /\ response.handler = "leaderboardWeek" =>
         /\ response.table.gotw_actual = ClaimedGotwActual(response.week)
         /\ IsNull(response.table.gotw_actual) =>
              \A i \in 1..Len(response.table.rows) : response.table.rows[i].gotw_points = 0
    /\ (response.handler = "publicPicks" /\ ~response.locked /\ response.picks # <<>>) =>
         /\ response.gotw_actual = ClaimedGotwActual(response.week)
         /\ IsNull(response.gotw_actual) =>
              \A i \in 1..Len(response.picks) : response.picks[i].gotw_points = 0

\* C8: the overall standings are the same list whatever order the store
\* returned the picks in.
C8_StandingsOrderDeterministic ==
    response.handler = "leaderboardOverall" =>
        \A order \in WeekOrders :
            response.standings = OverallStandings(DOUBLE_WEEKS, order)


----------------------------------------------------------------------------
(* Properties of the kickoff reconcilers                                   *)

\* the threshold of the last run in milliseconds: seconds for the sync
\* script, minutes for the other two
ThresholdMs ==
    IF runLog.script = "sync" THEN runLog.threshold * MsPerSecond
    ELSE runLog.threshold * MsPerMinute

C10_ThresholdGating ==
    (runLog.script # "none" /\ runLog.status = "ok" /\ runLog.apply) =>
        \A a \in runLog.audit :
            ~IsNull(a.db) => (a.written <=> Abs(a.to - Val(a.db)) >= ThresholdMs)

\* C11: a run executes no UPDATE on a game whose stored kickoff had passed
\* when the run started.
C11_PastKickoffsKept ==
    runLog.script # "none" =>
        \A a \in runLog.audit :
            (~IsNull(a.db) /\ Val(a.db) <= runLog.at) => ~a.written

\* C12: when the store rejects an UPDATE part-way through a run, every game
\* the run looked at holds the kickoff it had before the run.
C12_BatchAllOrNothing ==
    (runLog.script # "none" /\ runLog.status = "fatal") =>
        \A a \in runLog.audit : games[a.id].kickoff = a.db

\* C13: a run started without the apply flag leaves the games table as it
\* was, whichever script it is.
C13_DryRunWritesNothing ==
    [][(runLog'.run > runLog.run /\ ~runLog'.apply) => games' = games]_vars

\* the instant a script resolves for a game from its sources, if any
ResolvedInstant(script, id) ==
    LET g == games[id]
    IN CASE script = "sync" -> SyncSchedule(matchKey(g.home_team, g.away_team))
         [] script = "resync" -> targetIso(g.week, matchupKey(g.home_team, g.away_team))
         [] script = "shift" -> OddsCommence(matchupKey(g.home_team, g.away_team))
         [] OTHER -> FutureSchedule(keyMatch(g.home_team, g.away_team))

\* C14: a completed run in apply mode sets the kickoff of every game at or
\* above its week floor that had none and for which its sources resolve an
\* instant, to that instant.
C14_MissingKickoffAlwaysSet ==
    [][(runLog'.run > runLog.run /\ runLog'.status = "ok" /\ runLog'.apply) =>
          \A id \in DOMAIN games :
             ( /\ games[id].week >= runLog'.min_week
               /\ IsNull(games[id].kickoff)
               /\ ~IsNull(ResolvedInstant(runLog'.script, id)) )
             => games'[id].kickoff = ResolvedInstant(runLog'.script, id)]_vars

\* the events of The Odds API for the matchup of game g, in either
\* orientation
OddsEventsOf(g) ==
    IF ~oddsFeed.ok THEN {}
    ELSE {i \in 1..Len(oddsFeed.events) :
            LET e == oddsFeed.events[i]
            IN \/ /\ canonicalSlug(e.home_team) = canonicalSlug(g.home_team)
                  /\ canonicalSlug(e.away_team) = canonicalSlug(g.away_team)
               \/ /\ canonicalSlug(e.home_team) = canonicalSlug(g.away_team)
                  /\ canonicalSlug(e.away_team) = canonicalSlug(g.home_team)}

\* the SportsDataIO schedule entries for game g: its week, its matchup
SdioEventsOf(g) ==
    {i \in 1..Len(sdioFeed.events) :
        LET e == sdioFeed.events[i]
        IN /\ e.week = g.week
           /\ canonicalSlug(e.home_team) = canonicalSlug(g.home_team)
           /\ canonicalSlug(e.away_team) = canonicalSlug(g.away_team)}

C16_OneSourceFailureNotFatal ==
    ( /\ runLog.script \in {"resync", "syncFuture"}
      /\ oddsFeed.ok # sdioFeed.ok )
    => runLog.status # "failed"

----------------------------------------------------------------------------
(* Properties of the conversion helpers                                    *)

\* the day of the n-th Sunday of a month (monthIndex from 0)
NthSunday(year, monthIndex, n) ==
    CHOOSE d \in (7 * n - 6)..(7 * n) : getUTCDay(DateUTC(year, monthIndex, d, 0, 0)) = 0

\* the hours between an Eastern wall clock and UTC under the US calendar:
\* 4 from 02:00 on the second Sunday of March up to 02:00 on the first
\* Sunday of November of the stamp's year, else 5
ClaimedOffsetHours(l) ==
    LET wall == DateUTC(l.year, l.month - 1, l.day, l.hour, l.minute)
        begins == DateUTC(l.year, 2, NthSunday(l.year, 2, 2), 2, 0)
        ends == DateUTC(l.year, 10, NthSunday(l.year, 10, 1), 2, 0)
    IN IF begins <= wall /\ wall < ends THEN 4 ELSE 5

ClaimedUtc(l) ==
    toISOString(DateUTC(l.year, l.month - 1, l.day, l.hour, l.minute)
                  + ClaimedOffsetHours(l) * 60)

\* C17: a wall-clock stamp without a zone is converted by adding 4 hours
\* inside the DST interval of its own year and 5 hours outside, by
\* easternLocalToUtcIso and by parseSportsDataUtc on a DateTime alone; so
\* 2025-11-09T13:00 becomes 2025-11-09T18:00Z and 2025-09-07T13:00 becomes
\* 2025-09-07T17:00Z.
C17_EasternToUtc ==
    (evaluation.fn \in {"easternLocalToUtcIso", "parseSportsDataUtc"} /\ ~evaluation.utcGiven)
    => /\ evaluation.result = ClaimedUtc(evaluation.arg)
       /\ evaluation.arg = [year |-> 2025, month |-> 11, day |-> 9, hour |-> 13, minute |-> 0]
            => evaluation.result =
                 [year |-> 2025, month |-> 11, day |-> 9, hour |-> 18, minute |-> 0]
       /\ evaluation.arg = [year |-> 2025, month |-> 9, day |-> 7, hour |-> 13, minute |-> 0]
            => evaluation.result =
                 [year |-> 2025, month |-> 9, day |-> 7, hour |-> 17, minute |-> 0]

\* C18: a canonicalization helper called on its own result returns that
\* result again, for every spelling.
C18_CanonicalizeIdempotent ==
    (evaluation.fn \in CanonicalFns /\ evaluation.again) =>
        evaluation.twice = Some(evaluation.result)

SanFranciscoSpellings == {"SF", "San Francisco 49ers", "49ers"}

\* C19: each helper returns one and the same slug for "SF", for
\* "San Francisco 49ers" and for "49ers".
C19_SanFranciscoSpellingsJoin ==
    (evaluation.fn \in CanonicalFns /\ evaluation.arg \in SanFranciscoSpellings) =>
        \A other \in SanFranciscoSpellings :
            ApplyCanonical(evaluation.fn, other) = evaluation.result

----------------------------------------------------------------------------
(* Properties of the admin routes                                          *)

\* C20: game_of_the_week holds at most one row per week, and the matchup of
\* every row is a game stored for that week.
C20_GotwRowIsGameOfWeek ==
    /\ \A r, q \in gotwTable : r.week = q.week => r = q
    /\ \A r \in gotwTable :
         \E id \in DOMAIN games : /\ games[id].week = r.week
                                  /\ games[id].home_team = r.home_team
                                  /\ games[id].away_team = r.away_team

----------------------------------------------------------------------------
(* Properties of the account routes                                        *)

\* the stored row says deactivated, in a column the table has
StoredInactive(r) == r.deactivated = Some(TRUE) \/ r.is_active = Some(FALSE)

\* the stored row says pending approval in every column the table has for it
StoredPending(r) ==
    /\ r.approved # Some(TRUE)
    /\ r.pending_approval # Some(FALSE)
    /\ ~(IsNull(r.approved) /\ IsNull(r.pending_approval))

\* the stored row says approved in every column the table has for it
StoredApproved(r) == r.approved # Some(FALSE) /\ r.pending_approval # Some(TRUE)

\* C22: a login with the right credentials is answered 403 INACTIVE for a
\* deactivated or inactive user; otherwise 403 PENDING_APPROVAL for a
\* pending user who is no admin (so for a row as sign-up writes it:
\* approved = false, deactivated = false); otherwise with a token.  No
\* token goes to a deactivated user or to a pending non-admin.
C22_LoginDecisionOrder ==
    (response.handler = "login" /\ response.status \notin {400, 401}) =>
        LET r == users[CHOOSE id \in UsersByEmail(response.email) : TRUE]
        IN /\ StoredInactive(r) => response.code = "INACTIVE"
           /\ (~StoredInactive(r) /\ StoredPending(r) /\ ~r.is_admin)
                 => response.code = "PENDING_APPROVAL"
           /\ (~StoredInactive(r) /\ (StoredApproved(r) \/ r.is_admin))
                 => ~IsNull(response.token)
           /\ ~IsNull(response.token)
                 => ~StoredInactive(r) /\ ~(StoredPending(r) /\ ~r.is_admin)

\* C21: the admin user-management routes (approve, decline, activate,
\* deactivate, admin-role, delete), in any order and interleaving, leave at
\* least one user with is_admin = true and is_active = true.
C21_ActiveAdminRemains == countActiveAdmins >= 1


----------------------------------------------------------------------------
(* Properties of score ingestion                                           *)

\* the ingestion answered 200 in this step
Ingested ==
    /\ response = NoResponse
    /\ response'.handler \in {"fetchNow", "fetchAndIngest"}
    /\ response'.status = 200

\* the provider's item e is the stored game g of the ingested week
SameGame(e, g, week) ==
    /\ g.week = week
    /\ e.HomeTeam \in DOMAIN TEAM_FULL /\ TEAM_FULL[e.HomeTeam] = g.home_team
    /\ e.AwayTeam \in DOMAIN TEAM_FULL /\ TEAM_FULL[e.AwayTeam] = g.away_team

\* C29: score ingestion writes scores only for games that have scores: a
\* game whose item has no HomeScore or no AwayScore yet is skipped, so its
\* stored home_score and away_score stay as they were (null stays null, and
\* scores already stored are not replaced by null or by a placeholder).
C29_UnscoredGamesSkipped ==
    [][Ingested =>
         \A i \in 1..Len(response'.data) : \A id \in DOMAIN games :
            LET e == response'.data[i]
            IN (/\ SameGame(e, games[id], response'.week)
                /\ (e.HomeScore.kind # "num" \/ e.AwayScore.kind # "num"))
               => /\ games'[id].home_score = games[id].home_score
                  /\ games'[id].away_score = games[id].away_score]_vars


----------------------------------------------------------------------------
(* Properties of the season                                                *)

\* the week's Sunday kickoffs, as stored
SundayKickoffs(w) ==
    {Val(games[id].kickoff) : id \in {i \in DOMAIN games :
         /\ games[i].week = w /\ ~IsNull(games[i].kickoff)
         /\ DOW(Val(games[i].kickoff)) = 0}}

\* now is before 18:00 UTC on the date of the earliest Sunday game of w
BeforeSundayEvening(w) ==
    /\ SundayKickoffs(w) # {}
    /\ \E t \in SundayKickoffs(w) :
         /\ \A t2 \in SundayKickoffs(w) : t <= t2
         /\ now < t - (t % MsPerDay) + 18 * MsPerHour

\* C23: whenever a week has a Sunday game and now is before 18:00 UTC on
\* the date of its earliest Sunday game, GET /picks/week/:week/public
\* answers locked = true with an empty picks list.
C23_PublicPicksLocked ==
    [][(response = NoResponse /\ response'.handler = "publicPicks"
        /\ BeforeSundayEvening(response'.week))
       => (response'.locked /\ response'.picks = <<>>)]_vars

\* the request is answered locked after the Sunday kickoff and before the
\* evening, for a week that has picks
C23_Witness ==
    /\ response.handler = "publicPicks"
    /\ response.locked
    /\ BeforeSundayEvening(response.week)
    /\ IsLocked(response.week)
    /\ \E p \in picks : p.week = response.week


\* C28: the per-week state only moves forward: once a week is Locked (now
\* has reached its first Sunday kickoff), no later operation makes it
\* observable as Open again.
C28_LockedStaysLocked ==
    [][\A w \in Weeks : IsLocked(w) => IsLocked(w)']_vars


----------------------------------------------------------------------------
(* Properties of the password reset                                        *)

C30_TokenUsedOnce ==
    [][/\ \A w \in inflight :
            (w.op = "perform-reset" /\ inflight' = inflight \ {w}
             /\ resetTokens[w.id].used)
            => users' = users
       /\ \A t \in DOMAIN resetTokens :
            (/\ resetTokens[t].used \/ resetTokens[t].expires_at <= now
             /\ response = NoResponse
             /\ response'.handler = "perform-reset" /\ response'.token = t
             /\ inflight' = inflight)
            => (response'.status = 400 /\ users' = users
                /\ resetTokens' = resetTokens)]_vars


----------------------------------------------------------------------------
(* Properties of the bonus contests                                        *)

\* the official POTW values entered for week w
EnteredPotw(w) ==
    {Val(r.player_total_yards) : r \in {x \in potwTable :
                                          x.week = w /\ ~IsNull(x.player_total_yards)}}

\* C25: in the weekly computation a participant receives the POTW bonus of
\* 3 points (times the week's factor) if and only if an official POTW value
\* has been entered for the week and the participant's POTW prediction is
\* present and equal to it; with no official value nobody receives it.
C25_PotwExactBonus ==
    response.handler = "leaderboardWeek" =>
        \A i \in 1..Len(response.table.rows) :
           LET row == response.table.rows[i]
               w == response.week
           IN \A p \in {x \in picks : x.week = w /\ x.user_id = row.user_id} :
                row.potw_points =
                  (IF /\ ~IsNull(p.potw_prediction)
                      /\ Val(p.potw_prediction) \in EnteredPotw(w)
                   THEN 3 ELSE 0) * response.table.factor

\* a week with the official value 112: a prediction of 112 earns the bonus,
\* a prediction of 111 does not
C25_Witness ==
    /\ response.handler = "leaderboardWeek"
    /\ EnteredPotw(response.week) = {112}
    /\ \E i, j \in 1..Len(response.table.rows) :
         /\ response.table.rows[i].potw_points = 3 * response.table.factor
         /\ response.table.rows[j].potw_points = 0
         /\ PickRow(response.table.rows[j].user_id, response.week, Bills, Some(111),
                    Some(40), SeedCreatedAt(response.table.rows[j].user_id)) \in picks


\* no GOTW prediction: no GOTW points and no podium place in the weekly table
NoPredictionNoGotwWeekly ==
    response.handler = "leaderboardWeek" =>
        \A i \in 1..Len(response.table.rows) :
           LET row == response.table.rows[i]
           IN (\E p \in picks : /\ p.week = response.week /\ p.user_id = row.user_id
                                /\ IsNull(p.gotw_prediction))
              => /\ row.gotw_points = 0
                 /\ \A k \in 1..Len(response.table.podium) :
                       response.table.podium[k].user_id # row.user_id

\* no GOTW prediction: no rank and no GOTW points in the public view
NoPredictionNoGotwPublic ==
    response.handler = "publicPicks" =>
        \A i \in 1..Len(response.picks) :
           IsNull(response.picks[i].gotw_prediction)
           => /\ response.picks[i].gotw_rank = 0
              /\ response.picks[i].gotw_points = 0

\* C27: in every scoring path, a participant whose pick has no GOTW
\* prediction is not ranked in the GOTW contest and receives 0 GOTW points,
\* for any number of other participants and predictions.
C27_NoPredictionNoGotw == NoPredictionNoGotwWeekly /\ NoPredictionNoGotwPublic


----------------------------------------------------------------------------
(* Properties of return fixtures                                           *)

\* the instants the sources give for the meeting that stored game g is:
\* the schedule entries of g's week with g's home and away teams, and the
\* odds events with g's home and away teams
MeetingKickoffs(g, source) ==
    IF source = "sportsdata"
    THEN {sdioFeed.events[i].DateTimeUTC : i \in
            {k \in 1..Len(sdioFeed.events) :
               /\ sdioFeed.events[k].week = g.week
               /\ matchupKey(sdioFeed.events[k].home_team, sdioFeed.events[k].away_team)
                    = matchupKey(g.home_team, g.away_team)}}
    ELSE {oddsFeed.events[i].commence_time : i \in
            {k \in 1..Len(oddsFeed.events) :
               matchupKey(oddsFeed.events[k].home_team, oddsFeed.events[k].away_team)
                 = matchupKey(g.home_team, g.away_team)}}

\* every UPDATE of the run wrote the kickoff of the game's own meeting
OwnMeetingWritten(script) ==
    runLog.script = script =>
        \A a \in runLog.audit :
           a.written => a.to \in MeetingKickoffs(games[a.id], a.source)

\* C26: when the same two teams meet twice (once in each orientation, in
\* different weeks), the reconciler gives each stored game only the kickoff
\* of the source fixture of that same meeting: a game of one week is never
\* overwritten with the kickoff of the other week's meeting of the pair.
C26_ReturnFixturesKeptApart == OwnMeetingWritten("sync") /\ OwnMeetingWritten("resync")

====
